-------------------------- MODULE RampingVusProofs --------------------------
(***************************************************************************)
(* Proofs about RampingVus, for every number of tasks and every list of    *)
(* stages: the pool stays whole while it only grows, and a ramp-up loses   *)
(* nobody to a ramp-down that was armed before it.                         *)
(***************************************************************************)
EXTENDS RampingVus, VuPoolProofs

\* The stages up to k never ask for fewer VUs than the one before.
Grows(k) == \A i \in 1..k : i <= Len(Stages) => From(i) <= Stages[i]

InStage == {"up", "down", "rearm", "settle", "clear", "adopt", "retain", "hold"}
Shrinking == {"down", "rearm", "settle", "clear", "adopt", "retain"}

\* A stage is being run only while there is one.
StageRuns == ctl \in InStage => stage <= Len(Stages)

(***************************************************************************)
(* current_vus between the stages.  After a ramp-down it is whatever was   *)
(* adopted; until then it is the target the last stage reached.            *)
(***************************************************************************)
CountFollows ==
  /\ ctl = "start" => stage = 1 /\ Handles = {}
  /\ ctl = "stage" /\ Grows(stage) => cur = From(stage)
  /\ ctl = "hold" => cur = Target
  /\ ctl \in Shrinking => ~Grows(stage)

\* A ramp-up has nothing armed that a VU could claim.
NothingToClaim == ctl = "up" => rdRemaining = 0

RampInv == TypeOK /\ ActiveIsLeases /\ StageRuns /\ CountFollows /\ NothingToClaim /\ PoolHeld

-----------------------------------------------------------------------------
(* What a step does to the handles.                                        *)

\* PoolHeld says this of the stages.
LEMMA PoolHeldIs ==
  PoolHeld <=> (ctl \in {"stage", "up", "hold"} /\ ~Stopping /\ Grows(stage)
                  => Cardinality(Handles) = cur)
BY DEF PoolHeld, Grows

\* Handles, in the form the lemmas of VuPoolProofs use.
LEMMA HandlesHeld == Handles = Held(pc) /\ Handles' = Held(pc')
BY DEF Handles, Held

\* The target of a stage that runs is a number.
LEMMA TargetNat ==
  ASSUME TypeOK, stage <= Len(Stages)
  PROVE  Target \in Nat
BY RampAssumption DEF TypeOK, Target

\* A list of stages that grows so far grew all the way.
LEMMA GrewBefore ==
  ASSUME stage \in Nat, Grows(stage + 1)
  PROVE  Grows(stage)
BY DEF Grows

\* A respawn puts a new task where it found a finished one.
LEMMA RespawnedHeld ==
  ASSUME NEW p \in [Task -> TaskState]
  PROVE  Respawned(p) \in [Task -> TaskState] /\ Held(Respawned(p)) = Held(p)
BY DEF Respawned, Held, TaskState

\* Whatever is reaped, the types are kept, no lease is touched, and the handles
\* stay as they are.
LEMMA ReapKeeps ==
  ASSUME NEW p \in Reap, pc \in [Task -> TaskState]
  PROVE  /\ p \in [Task -> TaskState]
         /\ Held(p) = Held(pc)
         /\ \A t \in Task : p[t] = pc[t] \/ (pc[t] \notin LeasedState /\ p[t] \notin LeasedState)
<1>1. p = pc \/ p = Respawned(pc)
  BY DEF Reap
<1> QED
  BY <1>1, RespawnedHeld DEF Respawned, LeasedState

\* run_vu touches no lease, and unless a stop was requested it adds a handle for
\* each VU it spawns.
LEMMA SpawnKeeps ==
  ASSUME NEW n \in Nat, NEW p \in [Task -> TaskState], NEW q \in Spawned(p, n)
  PROVE  /\ q \in [Task -> TaskState]
         /\ ~Stopping => Cardinality(Held(q)) = Cardinality(Held(p)) + n
         /\ \A t \in Task : q[t] = p[t] \/ (p[t] \notin LeasedState /\ q[t] \notin LeasedState)
<1>1. PICK T \in SUBSET Spawnable(p) :
        Cardinality(T) = n /\ q = [t \in Task |-> IF t \in T THEN "spawned" ELSE p[t]]
  BY DEF Spawned
<1>2. q \in [Task -> TaskState]
  BY <1>1 DEF TaskState
<1>3. \A t \in T : p[t] \in {"free", "finished"}
  BY DEF Spawnable
<1>4. \A t \in Task : q[t] = p[t] \/ (p[t] \notin LeasedState /\ q[t] \notin LeasedState)
  BY <1>1, <1>3 DEF LeasedState
<1>5. ASSUME ~Stopping
      PROVE  Cardinality(Held(q)) = Cardinality(Held(p)) + n
  <2>1. T \in SUBSET {t \in Task : p[t] = "free"}
    BY <1>5 DEF Spawnable
  <2> QED
    BY <1>1, <2>1, SpawnAddsHeld
<1> QED
  BY <1>2, <1>4, <1>5

-----------------------------------------------------------------------------
(* The inductive invariant.                                                *)

\* It holds initially: no handle, no lease, nothing armed.
LEMMA RampInitially == Init => RampInv
<1> SUFFICES ASSUME Init PROVE RampInv
  OBVIOUS
<1>1. PoolTypeOK /\ ActiveIsLeases
  BY PoolInitOK DEF Init
<1>2. Handles = {}
  BY DEF Init, PoolInit, Handles
<1>3. Len(Stages) \in Nat
  BY RampAssumption
<1>4. TypeOK
  BY <1>1, <1>3 DEF Init, TypeOK, CtlState
<1>5. StageRuns /\ CountFollows /\ NothingToClaim /\ PoolHeld
  BY <1>2 DEF Init, StageRuns, InStage, Shrinking, CountFollows, NothingToClaim, PoolHeld
<1> QED
  BY <1>1, <1>4, <1>5 DEF RampInv

\* A step that leaves the handles, the executor's place and its counts alone,
\* and arms nothing, keeps what is said of them.
LEMMA StillKeeps ==
  ASSUME RampInv, Held(pc') = Held(pc), UNCHANGED <<ctl, rampVars>>,
         Stopping => Stopping', rdRemaining' <= rdRemaining, rdRemaining' \in Nat
  PROVE  StageRuns' /\ CountFollows' /\ NothingToClaim' /\ PoolHeld'
<1>1. /\ UNCHANGED <<ctl, stage, cur, step, real>> /\ Handles' = Handles
      /\ Grows(stage)' = Grows(stage) /\ From(stage)' = From(stage) /\ Target' = Target
  BY HandlesHeld DEF rampVars, Grows, From, Target
<1>2. StageRuns' /\ CountFollows'
  BY <1>1 DEF RampInv, StageRuns, CountFollows
<1>3. NothingToClaim'
  <2>1. ctl = "up" => rdRemaining = 0
    BY DEF RampInv, NothingToClaim
  <2> QED
    BY <1>1, <2>1 DEF NothingToClaim
<1>4. PoolHeld'
  <2>1. ctl \in {"stage", "up", "hold"} /\ ~Stopping /\ Grows(stage) => Cardinality(Handles) = cur
    BY PoolHeldIs DEF RampInv
  <2>2. PoolHeld' <=> (ctl' \in {"stage", "up", "hold"} /\ ~Stopping' /\ Grows(stage)'
                         => Cardinality(Handles') = cur')
    BY DEF PoolHeld, Grows
  <2> QED
    BY <1>1, <2>1, <2>2
<1> QED
  BY <1>2, <1>3, <1>4

\* A step of a VU.
LEMMA VuKeeps ==
  ASSUME NEW t \in Task, RampInv, Vu(t)
  PROVE  RampInv'
<1>0. PoolTypeOK /\ ActiveIsLeases /\ TypeOK /\ pc \in [Task -> TaskState] /\ rdRemaining \in Nat
  BY DEF RampInv, TypeOK, PoolTypeOK
<1>00. "iter" \in TaskState /\ "iter" \in LeasedState
  BY DEF TaskState, LeasedState
<1>1. VuStep(t) \/ PassGate(t, "iter") \/ CompleteIteration(t)
  BY DEF Vu
<1>2. PoolTypeOK'
  BY <1>0, <1>00, <1>1, VuStepType, LoopStepType
<1>3. ActiveIsLeases'
  BY <1>0, <1>00, <1>1, VuStepLeases, LoopStepLeases
<1>4. Held(pc') = Held(pc)
  BY <1>0, <1>00, <1>1, VuKeepsHeld
<1>5. UNCHANGED <<ctl, rampVars>>
  <2>1. ctl' = ctl
    BY <1>1 DEF VuStep, StartVu, InitFail, LoopTop, ReadRampDownTarget, ClaimRampDown, ClaimedExit,
       PassGate, CompleteIteration, Panic, DropGuard, DropLease, FinishTask, AbortTask, ctlVars
  <2> QED
    BY <2>1 DEF Vu
<1>6. /\ Stopping => Stopping'
      /\ rdRemaining' <= rdRemaining /\ rdRemaining' \in Nat
  <2>1. CASE ClaimRampDown(t)
    <3>1. rdRemaining' = rdRemaining \/ (rdRemaining > 0 /\ rdRemaining' = rdRemaining - 1)
      BY <2>1 DEF ClaimRampDown
    <3>2. UNCHANGED <<stop, force>>
      BY <2>1 DEF ClaimRampDown, flags
    <3> QED
      BY <1>0, <3>1, <3>2 DEF Stopping
  <2>2. CASE CompleteIteration(t)
    <3>1. rdRemaining' = rdRemaining /\ force' = force /\ (stop' = stop \/ stop' = TRUE)
      BY <2>2 DEF CompleteIteration, rdVars
    <3>2. Stopping => Stopping'
      BY <3>1, Zenon DEF Stopping
    <3> QED
      BY <1>0, <3>1, <3>2
  <2>3. CASE ~ClaimRampDown(t) /\ ~CompleteIteration(t)
    <3>1. UNCHANGED <<stop, force, rdRemaining>>
      BY <1>1, <2>3 DEF VuStep, StartVu, InitFail, LoopTop, ReadRampDownTarget, ClaimedExit,
         PassGate, Panic, DropGuard, DropLease, FinishTask, AbortTask, flags, rdVars
    <3> QED
      BY <1>0, <3>1 DEF Stopping
  <2> QED
    BY <2>1, <2>2, <2>3
<1>7. StageRuns' /\ CountFollows' /\ NothingToClaim' /\ PoolHeld'
  BY <1>4, <1>5, <1>6, StillKeeps
<1>8. TypeOK'
  BY <1>0, <1>2, <1>5 DEF TypeOK, rampVars
<1> QED
  BY <1>3, <1>7, <1>8 DEF RampInv

\* A request from outside, or nothing at all.
LEMMA RequestKeeps ==
  ASSUME RampInv, External \/ UNCHANGED vars
  PROVE  RampInv'
<1>0. PoolTypeOK /\ ActiveIsLeases /\ TypeOK /\ rdRemaining \in Nat
  BY DEF RampInv, TypeOK, PoolTypeOK
<1>1. PoolTypeOK' /\ ActiveIsLeases' /\ pc' = pc
  <2>1. CASE External
    BY <1>0, <2>1, TailKeeps DEF External
  <2>2. CASE UNCHANGED vars
    BY <1>0, <2>2 DEF vars, poolVars, vuVars, flags, rdVars, ctlVars, PoolTypeOK, ActiveIsLeases, Leased
  <2> QED
    BY <2>1, <2>2
<1>2. UNCHANGED <<ctl, rampVars, rdRemaining>>
  BY DEF External, RequestStop, RequestForceStop, TogglePaused, vars, poolVars, rdVars, ctlVars
<1>3. Stopping => Stopping'
  BY DEF External, RequestStop, RequestForceStop, TogglePaused, vars, poolVars, flags, Stopping
<1>4. StageRuns' /\ CountFollows' /\ NothingToClaim' /\ PoolHeld'
  BY <1>0, <1>1, <1>2, <1>3, StillKeeps
<1>5. TypeOK'
  BY <1>0, <1>1, <1>2 DEF TypeOK, rampVars
<1> QED
  BY <1>1, <1>4, <1>5 DEF RampInv

\* The tail of the run: none of the places PoolHeld speaks of.
LEMMA EndingKeeps ==
  ASSUME RampInv, Ending
  PROVE  RampInv'
<1>0. PoolTypeOK /\ ActiveIsLeases /\ TypeOK
  BY DEF RampInv, TypeOK
<1>1. PoolTypeOK' /\ ActiveIsLeases'
  BY <1>0, TailKeeps DEF Ending
<1>2. ctl' \in {"drain", "join", "done"} /\ UNCHANGED rampVars
  BY DEF Ending, RunTail, SoftStop, Drained, GraceExpired, HandlesJoined, JoinBoundExpired
<1>3. TypeOK'
  BY <1>0, <1>1, <1>2 DEF TypeOK, rampVars, CtlState
<1>4. StageRuns' /\ CountFollows' /\ NothingToClaim' /\ PoolHeld'
  BY <1>2 DEF StageRuns, InStage, Shrinking, CountFollows, NothingToClaim, PoolHeld
<1> QED
  BY <1>1, <1>3, <1>4 DEF RampInv

-----------------------------------------------------------------------------
(* The steps of the executor.                                              *)

\* What a step of the executor does to the pool: the types hold, and no lease is
\* touched.
LEMMA RampPool ==
  ASSUME RampInv, Ramp \/ HoldTick \/ HoldEnd
  PROVE  PoolTypeOK' /\ ActiveIsLeases'
<1>0. PoolTypeOK /\ ActiveIsLeases /\ TypeOK /\ pc \in [Task -> TaskState]
  BY DEF RampInv, TypeOK, PoolTypeOK
<1>00. MaxU32 \in Nat /\ StartVus \in Nat
  BY TaskAssumption, RampAssumption
<1>1. ASSUME pc' \in [Task -> TaskState],
             \A t \in Task : pc'[t] = pc[t] \/ (pc[t] \notin LeasedState /\ pc'[t] \notin LeasedState),
             UNCHANGED <<seen, deaths, active, flags, rdVars, spawned, paused, aborted>>
      PROVE  PoolTypeOK' /\ ActiveIsLeases'
  BY <1>0, <1>1, QuietKeepsLeases DEF PoolTypeOK, flags, rdVars
<1>2. ASSUME UNCHANGED <<vuVars, active, flags, spawned, paused, aborted>>,
             rdTarget' \in Nat, rdRemaining' \in Nat
      PROVE  PoolTypeOK' /\ ActiveIsLeases'
  BY <1>0, <1>2 DEF PoolTypeOK, ActiveIsLeases, Leased, vuVars, flags
<1>3. CASE SpawnInitial
  BY <1>0, <1>00, <1>1, <1>3, SpawnKeeps DEF SpawnInitial
<1>4. CASE UpStep
  <2>1. PICK p \in Reap : pc' \in Spawned(p, 1)
    BY <1>4 DEF UpStep
  <2>2. /\ p \in [Task -> TaskState]
        /\ \A t \in Task : p[t] = pc[t] \/ (pc[t] \notin LeasedState /\ p[t] \notin LeasedState)
    BY <1>0, <2>1, ReapKeeps
  <2>3. /\ pc' \in [Task -> TaskState]
        /\ \A t \in Task : pc'[t] = p[t] \/ (p[t] \notin LeasedState /\ pc'[t] \notin LeasedState)
    BY <2>1, <2>2, SpawnKeeps
  <2> QED
    BY <1>1, <1>4, <2>2, <2>3 DEF UpStep, ctlVars
<1>5. CASE HoldTick
  BY <1>0, <1>1, <1>5, ReapKeeps DEF HoldTick, ctlVars
<1>6. CASE Retain
  <2>1. pc' = [t \in Task |-> IF pc[t] = "finished" THEN "free" ELSE pc[t]]
    BY <1>6 DEF Retain
  <2>2. pc' \in [Task -> TaskState]
    BY <1>0, <2>1 DEF TaskState
  <2>3. \A t \in Task : pc'[t] = pc[t] \/ (pc[t] \notin LeasedState /\ pc'[t] \notin LeasedState)
    BY <2>1 DEF LeasedState
  <2> QED
    BY <1>1, <1>6, <2>2, <2>3 DEF Retain
<1>7. CASE BeginStage
  <2>1. rdTarget' \in Nat /\ rdRemaining' \in Nat
    BY <1>0, <1>00, <1>7 DEF BeginStage, clear_ramp_down, rdVars, PoolTypeOK
  <2> QED
    BY <1>2, <1>7, <2>1 DEF BeginStage
<1>8. CASE DownStep
  <2>1. Target \in Nat
    BY <1>8, TargetNat DEF DownStep, RampInv, StageRuns, InStage
  <2>2. /\ step \in Nat /\ cur \in Nat /\ step < cur - Target /\ step' = step + 1
        /\ rdTarget' = cur - step' /\ rdRemaining' = rdRemaining + 1
    BY <1>0, <1>8 DEF DownStep, arm_ramp_down_step, TypeOK
  <2>3. rdTarget' \in Nat /\ rdRemaining' \in Nat
    BY <1>0, <2>1, <2>2 DEF PoolTypeOK
  <2> QED
    BY <1>2, <1>8, <2>3 DEF DownStep, ctlVars
<1>9. CASE Rearm
  <2>1. Target \in Nat /\ real \in Nat
    BY <1>0, <1>9, TargetNat DEF Rearm, RampInv, StageRuns, InStage, TypeOK
  <2>2. rdTarget' \in Nat /\ rdRemaining' \in Nat
    BY <1>9, <2>1 DEF Rearm, set_ramp_down_target, SatSub
  <2> QED
    BY <1>2, <1>9, <2>2 DEF Rearm
<1>10. CASE Disarm
  BY <1>2, <1>00, <1>10 DEF Disarm, clear_ramp_down
<1>11. CASE LastStage \/ UpEnd \/ LoadReal \/ Settled \/ SettleExpired \/ Adopt \/ HoldEnd
  <2>1. UNCHANGED <<vuVars, active, flags, rdVars, spawned, paused, aborted>>
    BY <1>11 DEF LastStage, UpEnd, LoadReal, Settled, SettleExpired, Adopt, HoldEnd
  <2>2. rdTarget' \in Nat /\ rdRemaining' \in Nat
    BY <1>0, <2>1 DEF rdVars, PoolTypeOK
  <2> QED
    BY <1>2, <2>1, <2>2
<1> QED
  BY <1>3, <1>4, <1>5, <1>6, <1>7, <1>8, <1>9, <1>10, <1>11 DEF Ramp

\* The executor's own counts keep their types, and it runs no stage there is not.
LEMMA RampTypes ==
  ASSUME RampInv, Ramp \/ HoldTick \/ HoldEnd
  PROVE  TypeOK' /\ StageRuns'
<1>0. /\ PoolTypeOK' /\ TypeOK /\ StageRuns /\ active \in Nat
      /\ Len(Stages) \in Nat /\ stage \in 1..Len(Stages) + 1 /\ StartVus \in Nat
      /\ cur \in Nat /\ step \in Nat /\ real \in Nat
  BY RampPool, RampAssumption DEF RampInv, TypeOK, PoolTypeOK
<1>1. CASE SpawnInitial
  BY <1>0, <1>1 DEF SpawnInitial, TypeOK, CtlState, StageRuns, InStage
<1>2. CASE BeginStage
  BY <1>0, <1>2 DEF BeginStage, TypeOK, CtlState, StageRuns, InStage
<1>3. CASE LastStage
  BY <1>0, <1>3 DEF LastStage, rampVars, TypeOK, CtlState, StageRuns, InStage
<1>4. CASE UpStep
  BY <1>0, <1>4 DEF UpStep, ctlVars, TypeOK, CtlState, StageRuns, InStage
<1>5. CASE UpEnd
  BY <1>0, <1>5 DEF UpEnd, NextStage, TypeOK, CtlState, StageRuns, InStage
<1>6. CASE DownStep
  BY <1>0, <1>6 DEF DownStep, ctlVars, TypeOK, CtlState, StageRuns, InStage
<1>7. CASE LoadReal
  BY <1>0, <1>7 DEF LoadReal, TypeOK, CtlState, StageRuns, InStage
<1>8. CASE Rearm \/ Settled \/ SettleExpired
  BY <1>0, <1>8 DEF Rearm, Settled, SettleExpired, rampVars, TypeOK, CtlState, StageRuns, InStage
<1>9. CASE Disarm
  <2>1. Target \in Nat
    BY <1>0, <1>9, TargetNat DEF Disarm, StageRuns, InStage
  <2> QED
    BY <1>0, <1>9, <2>1 DEF Disarm, TypeOK, CtlState, StageRuns, InStage
<1>10. CASE Adopt
  BY <1>0, <1>10 DEF Adopt, TypeOK, CtlState, StageRuns, InStage
<1>11. CASE Retain
  BY <1>0, <1>11 DEF Retain, NextStage, TypeOK, CtlState, StageRuns, InStage
<1>12. CASE HoldTick
  BY <1>0, <1>12 DEF HoldTick, rampVars, ctlVars, TypeOK, CtlState, StageRuns, InStage
<1>13. CASE HoldEnd
  BY <1>0, <1>13 DEF HoldEnd, NextStage, TypeOK, CtlState, StageRuns, InStage
<1> QED
  BY <1>1, <1>2, <1>3, <1>4, <1>5, <1>6, <1>7, <1>8, <1>9, <1>10, <1>11, <1>12, <1>13 DEF Ramp

\* What a step says of the next stage, when it moves to it.
LEMMA NextFrom ==
  ASSUME stage \in Nat \ {0}, stage' = stage + 1
  PROVE  /\ From(stage)' = Target
         /\ Grows(stage)' => Grows(stage)
<1>1. From(stage)' = Target
  BY DEF From, Target
<1>2. Grows(stage)' => Grows(stage)
  BY GrewBefore DEF Grows, From
<1> QED
  BY <1>1, <1>2

\* current_vus goes from target to target until a stage asks for fewer.
LEMMA RampCounts ==
  ASSUME RampInv, Ramp \/ HoldTick \/ HoldEnd
  PROVE  CountFollows'
<1>0. /\ CountFollows /\ StageRuns /\ stage \in Nat \ {0} /\ cur \in Nat
      /\ Len(Stages) \in Nat
  BY RampAssumption DEF RampInv, TypeOK
<1>1. CASE SpawnInitial
  <2>1. ctl' = "stage" /\ stage' = 1 /\ cur' = StartVus
    BY <1>0, <1>1 DEF SpawnInitial, CountFollows
  <2>2. From(stage)' = StartVus
    BY <2>1 DEF From
  <2> QED
    BY <2>1, <2>2 DEF CountFollows, Shrinking
<1>2. CASE BeginStage
  <2>1. stage' = stage /\ cur' = cur /\ ctl = "stage" /\ stage <= Len(Stages)
    BY <1>2 DEF BeginStage
  <2>2. Grows(stage)' = Grows(stage) /\ Target' = Target
    BY <2>1 DEF Grows, From, Target
  <2>3. Target \in Nat
    BY <2>1, TargetNat DEF RampInv
  <2>4. Grows(stage) => cur <= Target
    <3>1. Grows(stage) => From(stage) <= Stages[stage]
      BY <1>0, <2>1 DEF Grows
    <3> QED
      BY <1>0, <2>1, <3>1 DEF CountFollows, Target
  <2>5. CASE Target < cur /\ ctl' = "down"
    <3>1. ~Grows(stage)
      BY <1>0, <2>3, <2>4, <2>5
    <3> QED
      BY <2>2, <2>5, <3>1 DEF CountFollows, Shrinking
  <2>6. CASE ctl' = "up"
    BY <2>6 DEF CountFollows, Shrinking
  <2>7. CASE Target = cur /\ ctl' = "hold"
    BY <2>1, <2>2, <2>7 DEF CountFollows, Shrinking
  <2> QED
    BY <1>2, <2>5, <2>6, <2>7 DEF BeginStage
<1>3. CASE LastStage
  BY <1>3 DEF LastStage, CountFollows, Shrinking
<1>4. CASE UpStep
  BY <1>4 DEF UpStep, ctlVars, CountFollows, Shrinking
<1>5. CASE UpEnd \/ HoldEnd
  <2>1. ctl' = "stage" /\ stage' = stage + 1 /\ cur' = Target
    BY <1>0, <1>5 DEF UpEnd, HoldEnd, NextStage, CountFollows
  <2>2. From(stage)' = Target
    BY <1>0, <2>1, NextFrom
  <2> QED
    BY <2>1, <2>2 DEF CountFollows, Shrinking
<1>6. CASE DownStep \/ LoadReal \/ Rearm \/ Settled \/ Disarm \/ SettleExpired \/ Adopt
  <2>1. ctl \in Shrinking /\ ctl' \in Shrinking /\ stage' = stage
    BY <1>6 DEF DownStep, LoadReal, Rearm, Settled, Disarm, SettleExpired, Adopt, Shrinking, rampVars,
       ctlVars
  <2>2. ~Grows(stage)' /\ ctl' \notin {"start", "stage", "hold"}
    BY <1>0, <2>1 DEF CountFollows, Grows, From, Shrinking
  <2> QED
    BY <2>2 DEF CountFollows
<1>7. CASE Retain
  <2>1. ctl = "retain" /\ ctl' = "stage" /\ stage' = stage + 1
    BY <1>7 DEF Retain, NextStage
  <2>2. ~Grows(stage)
    BY <1>0, <2>1 DEF CountFollows, Shrinking
  <2>3. ~Grows(stage)'
    BY <1>0, <2>1, <2>2, NextFrom
  <2> QED
    BY <2>1, <2>3 DEF CountFollows, Shrinking
<1>8. CASE HoldTick
  <2>1. UNCHANGED <<ctl, stage, cur>> /\ ctl = "hold"
    BY <1>8 DEF HoldTick, ctlVars, rampVars
  <2> QED
    BY <1>0, <2>1 DEF CountFollows, Target, Shrinking
<1> QED
  BY <1>1, <1>2, <1>3, <1>4, <1>5, <1>6, <1>7, <1>8 DEF Ramp

\* A ramp-up begins by disarming, and arms nothing.
LEMMA RampDisarmed ==
  ASSUME RampInv, Ramp \/ HoldTick \/ HoldEnd
  PROVE  NothingToClaim'
<1>1. CASE BeginStage
  BY <1>1 DEF BeginStage, clear_ramp_down, NothingToClaim
<1>2. CASE UpStep
  BY <1>2 DEF UpStep, rdVars, ctlVars, RampInv, NothingToClaim
<1>3. CASE ~BeginStage /\ ~UpStep
  BY <1>3 DEF Ramp, SpawnInitial, LastStage, UpEnd, NextStage, DownStep, LoadReal, Rearm, Settled, Disarm,
     SettleExpired, Adopt, Retain, HoldTick, HoldEnd, NothingToClaim, ctlVars
<1> QED
  BY <1>1, <1>2, <1>3

\* The executor spawns one handle for each VU it counts.
LEMMA RampHeld ==
  ASSUME RampInv, Ramp \/ HoldTick \/ HoldEnd
  PROVE  PoolHeld'
<1>0. /\ CountFollows /\ stage \in Nat \ {0} /\ cur \in Nat /\ pc \in [Task -> TaskState]
      /\ Cardinality(Handles) \in Nat /\ StartVus \in Nat
  BY HandlesHeld, HeldFinite, RampAssumption DEF RampInv, TypeOK, PoolTypeOK
<1>1. ctl \in {"stage", "up", "hold"} /\ ~Stopping /\ Grows(stage) => Cardinality(Handles) = cur
  BY PoolHeldIs DEF RampInv
<1> SUFFICES ASSUME ctl' \in {"stage", "up", "hold"}, ~Stopping', Grows(stage)'
             PROVE  Cardinality(Handles') = cur'
  BY DEF PoolHeld, Grows
<1>2. ~Stopping
  BY DEF Ramp, SpawnInitial, BeginStage, LastStage, UpStep, UpEnd, DownStep, LoadReal, Rearm, Settled,
     Disarm, SettleExpired, Adopt, Retain, HoldTick, HoldEnd, flags, Stopping
<1>3. CASE SpawnInitial
  <2>1. Cardinality(Handles) = 0
    BY <1>0, <1>3, FS_EmptySet DEF SpawnInitial, CountFollows
  <2>2. Cardinality(Held(pc')) = Cardinality(Held(pc)) + StartVus
    BY <1>0, <1>2, <1>3, SpawnKeeps DEF SpawnInitial
  <2> QED
    BY <1>0, <1>3, <2>1, <2>2, HandlesHeld DEF SpawnInitial
<1>4. CASE BeginStage
  <2>1. UNCHANGED <<pc, stage, cur>> /\ ctl = "stage"
    BY <1>4 DEF BeginStage, vuVars
  <2>2. Grows(stage)
    BY <2>1 DEF Grows, From
  <2> QED
    BY <1>1, <1>2, <2>1, <2>2 DEF Handles
<1>5. CASE UpStep
  <2>1. PICK p \in Reap : pc' \in Spawned(p, 1)
    BY <1>5 DEF UpStep
  <2>2. p \in [Task -> TaskState] /\ Held(p) = Held(pc)
    BY <1>0, <2>1, ReapKeeps
  <2>3. Cardinality(Held(pc')) = Cardinality(Held(pc)) + 1
    BY <1>2, <2>1, <2>2, SpawnKeeps
  <2>4. ctl = "up" /\ cur' = cur + 1 /\ stage' = stage
    BY <1>5 DEF UpStep
  <2>5. Grows(stage)
    BY <2>4 DEF Grows, From
  <2> QED
    BY <1>1, <1>2, <2>3, <2>4, <2>5, HandlesHeld
<1>6. CASE UpEnd \/ HoldEnd
  <2>1. UNCHANGED <<pc, cur>> /\ ctl \in {"up", "hold"} /\ stage' = stage + 1
    BY <1>6 DEF UpEnd, HoldEnd, NextStage, vuVars
  <2>2. Grows(stage)
    BY <1>0, <2>1, NextFrom
  <2> QED
    BY <1>1, <1>2, <2>1, <2>2 DEF Handles
<1>7. CASE Retain
  <2>1. ctl = "retain" /\ stage' = stage + 1
    BY <1>7 DEF Retain, NextStage
  <2>2. Grows(stage)
    BY <1>0, <2>1, NextFrom
  <2> QED
    BY <1>0, <2>1, <2>2 DEF CountFollows, Shrinking
<1>8. CASE HoldTick
  <2>1. pc' \in Reap /\ UNCHANGED <<stage, cur>> /\ ctl = "hold"
    BY <1>8 DEF HoldTick, rampVars
  <2>2. Held(pc') = Held(pc)
    BY <1>0, <2>1, ReapKeeps
  <2>3. Grows(stage)
    BY <2>1 DEF Grows, From
  <2> QED
    BY <1>1, <1>2, <2>1, <2>2, <2>3, HandlesHeld
<1>9. CASE LastStage \/ DownStep \/ LoadReal \/ Rearm \/ Settled \/ Disarm \/ SettleExpired \/ Adopt
  BY <1>9 DEF LastStage, DownStep, LoadReal, Rearm, Settled, Disarm, SettleExpired, Adopt, ctlVars
<1> QED
  BY <1>3, <1>4, <1>5, <1>6, <1>7, <1>8, <1>9 DEF Ramp

\* Every step preserves the invariant.
LEMMA RampInductive == RampInv /\ [Next]_vars => RampInv'
<1> SUFFICES ASSUME RampInv, [Next]_vars PROVE RampInv'
  OBVIOUS
<1>1. CASE Ramp \/ HoldTick \/ HoldEnd
  BY <1>1, RampPool, RampTypes, RampCounts, RampDisarmed, RampHeld DEF RampInv
<1>2. CASE Ending
  BY <1>2, EndingKeeps
<1>3. CASE External \/ UNCHANGED vars
  BY <1>3, RequestKeeps
<1>4. ASSUME NEW t \in Task, Vu(t)
      PROVE  RampInv'
  BY <1>4, VuKeeps
<1> QED
  BY <1>1, <1>2, <1>3, <1>4 DEF Next

\* The invariant holds in every reachable state.
LEMMA RampAlways == Spec => []RampInv
BY RampInitially, RampInductive, PTL DEF Spec

-----------------------------------------------------------------------------
(* What follows.                                                           *)

\* Type correctness of run_ramping and run_constant, every counter a number.
THEOREM RampTypeCorrect == Spec => []TypeOK
BY RampAlways, PTL DEF RampInv

\* active_vus counts exactly the VUs that hold a lease, through every ramp-up,
\* ramp-down and hold, whoever dies, claims its exit or is aborted.
THEOREM RampLeasesCounted == Spec => []ActiveIsLeases
BY RampAlways, PTL DEF RampInv

\* Until the first ramp-down or a stop the executor holds exactly current_vus
\* handles, for every list of stages: the dead are replaced one for one.
THEOREM GrowingPoolIsHeld == Spec => []PoolHeld
BY RampAlways, PTL DEF RampInv

\* A claim needs a slot of the ramp-down, and a ramp-up has none to give: no VU
\* leaves by a claim while the pool grows, not even one that read the target of
\* an earlier ramp-down.
LEMMA NoClaimStep ==
  RampInv /\ [Next]_vars => (ctl = "up" => \A t \in Task : ~(pc[t] = "cas" /\ pc'[t] = "won"))
<1> SUFFICES ASSUME RampInv, Next \/ UNCHANGED vars, ctl = "up",
                    NEW t \in Task, pc[t] = "cas", pc'[t] = "won"
             PROVE  FALSE
  OBVIOUS
<1>0. rdRemaining = 0 /\ pc \in [Task -> TaskState] /\ PoolTypeOK
  BY DEF RampInv, NothingToClaim, TypeOK, PoolTypeOK
<1>1. CASE UpStep
  <2>1. PICK p \in Reap : pc' \in Spawned(p, 1)
    BY <1>1 DEF UpStep
  <2>2. p[t] = "cas"
    BY <2>1 DEF Reap, Respawned
  <2>3. PICK T \in SUBSET Spawnable(p) : pc' = [u \in Task |-> IF u \in T THEN "spawned" ELSE p[u]]
    BY <2>1 DEF Spawned
  <2> QED
    BY <2>2, <2>3
<1>2. CASE (Ramp \/ HoldTick \/ HoldEnd \/ Ending) /\ ~UpStep
  <2>1. UpEnd
    BY <1>2 DEF Ramp, SpawnInitial, BeginStage, LastStage, DownStep, LoadReal, Rearm, Settled, Disarm,
       SettleExpired, Adopt, Retain, HoldTick, HoldEnd, Ending, RunTail, SoftStop, Drained, GraceExpired,
       HandlesJoined, JoinBoundExpired
  <2> QED
    BY <2>1 DEF UpEnd, vuVars
<1>3. CASE External \/ UNCHANGED vars
  BY <1>3 DEF External, RequestStop, RequestForceStop, TogglePaused, vars, poolVars, vuVars
<1>4. ASSUME NEW u \in Task, Vu(u)
      PROVE  FALSE
  <2>0. VuStep(u) \/ PassGate(u, "iter") \/ CompleteIteration(u)
    BY <1>4 DEF Vu
  <2>1. ASSUME NEW r, Goto(u, r), r # "won"
        PROVE  FALSE
    BY <1>0, <2>1, GotoMoves
  <2>2. CASE StartVu(u) BY <2>1, <2>2 DEF StartVu
  <2>3. CASE InitFail(u) BY <2>1, <2>3 DEF InitFail
  <2>4. CASE LoopTop(u) BY <2>1, <2>4 DEF LoopTop
  <2>5. CASE ReadRampDownTarget(u) BY <2>1, <2>5 DEF ReadRampDownTarget
  <2>6. CASE ClaimRampDown(u) BY <1>0, <2>1, <2>6 DEF ClaimRampDown
  <2>7. CASE ClaimedExit(u) BY <2>1, <2>7 DEF ClaimedExit
  <2>8. CASE Panic(u) BY <2>1, <2>8 DEF Panic
  <2>9. CASE DropGuard(u) BY <2>1, <2>9 DEF DropGuard
  <2>10. CASE DropLease(u) BY <2>1, <2>10 DEF DropLease
  <2>11. CASE FinishTask(u) BY <2>1, <2>11 DEF FinishTask
  <2>12. CASE AbortTask(u) BY <2>1, <2>12 DEF AbortTask
  <2>13. CASE PassGate(u, "iter") BY <2>1, <2>13 DEF PassGate
  <2>14. CASE CompleteIteration(u) BY <2>1, <2>14 DEF CompleteIteration
  <2> QED
    BY <2>0, <2>2, <2>3, <2>4, <2>5, <2>6, <2>7, <2>8, <2>9, <2>10, <2>11, <2>12, <2>13, <2>14
    DEF VuStep
<1> QED
  BY <1>1, <1>2, <1>3, <1>4 DEF Next

\* So no step of a run lets a VU claim an exit while the pool ramps up.
THEOREM NothingClaimedWhileGrowing == Spec => NoClaimWhileGrowing
<1>1. RampInv /\ [Next]_vars =>
        [ctl = "up" => \A t \in Task : ~(pc[t] = "cas" /\ pc'[t] = "won")]_vars
  BY NoClaimStep
<1> QED
  BY <1>1, RampAlways, PTL DEF Spec, NoClaimWhileGrowing
=============================================================================
