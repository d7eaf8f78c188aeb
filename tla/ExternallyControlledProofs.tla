--------------------- MODULE ExternallyControlledProofs ---------------------
(***************************************************************************)
(* Proofs about ExternallyControlled, for every set of tasks, every        *)
(* configuration and every sequence of PATCH requests.                     *)
(***************************************************************************)
EXTENDS ExternallyControlled, VuPoolProofs

(***************************************************************************)
(* The ceiling is MaxU32 until the seed and max_vus from then on, and a    *)
(* handler's values are within the ceiling it loaded.  So what a handler   *)
(* stores after the seed is within max_vus, or late is set.                *)
(***************************************************************************)
Ceiling ==
  /\ hard = IF ctl = "seed" THEN MaxU32 ELSE MaxVus
  /\ \A c \in Conn :
       /\ patch[c].at = "max" => patch[c].max <= patch[c].hard
       /\ patch[c].at \in {"max", "target"} => patch[c].vus <= patch[c].hard
  /\ ~late => /\ ctl \notin {"seed", "seedMax"} => cmax <= MaxVus
              /\ ctl = "initial" => ctarget <= MaxVus
              /\ goal <= MaxVus /\ spawned <= MaxVus

(***************************************************************************)
(* control_spawned counts the pool from above.  The two moments where it   *)
(* does not are before the initial store and between a grow's spawns and   *)
(* its fetch_add; there the loop's locals make up the difference.          *)
(***************************************************************************)
Accounting ==
  /\ ctl \in SeedState => \A t \in Task : pc[t] = "free"
  /\ ctl = "store" => Cardinality(Pool) <= goal
  /\ ctl = "grow" => spawned <= snap /\ snap < goal
  /\ ctl = "add" =>
       spawned <= snap /\ snap < goal /\ Cardinality(Pool) <= spawned + (goal - snap)
  /\ ctl \notin SeedState \cup {"store", "add"} => Cardinality(Pool) <= spawned

IInv == TypeOK /\ ActiveIsLeases /\ Ceiling /\ Accounting

-----------------------------------------------------------------------------
(* The pool.                                                               *)

\* The logical pool, in the form the counting lemmas of VuPoolProofs use.
LEMMA PoolIn == Pool = In(pc, PoolState) /\ Pool' = In(pc', PoolState)
BY DEF Pool, In

\* The logical pool has a size.
LEMMA PoolFinite == IsFiniteSet(Pool) /\ Cardinality(Pool) \in Nat
BY PoolIn, InFinite

\* A task that moves within the pool, or outside it, leaves its size alone; a
\* task that leaves takes one off.
LEMMA PoolStep ==
  ASSUME NEW t \in Task, NEW s \in TaskState, pc \in [Task -> TaskState], Goto(t, s)
  PROVE  /\ (pc[t] \in PoolState <=> s \in PoolState) =>
              Cardinality(Pool') = Cardinality(Pool)
         /\ pc[t] \in PoolState /\ s \notin PoolState =>
              Cardinality(Pool) > 0 /\ Cardinality(Pool') = Cardinality(Pool) - 1
BY PoolIn, InStep, GotoMoves

\* run_vu, n times, adds n VUs to the pool and touches no lease.
LEMMA SpawnPool ==
  ASSUME NEW n \in Nat, pc \in [Task -> TaskState], Spawn(n)
  PROVE  /\ pc' \in [Task -> TaskState]
         /\ Cardinality(Pool') = Cardinality(Pool) + n
         /\ \A t \in Task : pc'[t] = pc[t] \/ (pc[t] \notin LeasedState /\ pc'[t] \notin LeasedState)
<1>1. PICK T \in SUBSET {t \in Task : Quiet(t)} :
        /\ Cardinality(T) = n
        /\ pc' = [t \in Task |-> IF t \in T THEN "spawned" ELSE pc[t]]
  BY DEF Spawn
<1>2. \A t \in Task : pc'[t] = IF t \in T THEN "spawned" ELSE pc[t]
  BY <1>1
<1>3. \A t \in T : pc[t] \in {"free", "finished"}
  BY DEF Quiet
<1>4. pc' \in [Task -> TaskState]
  BY <1>1 DEF TaskState
<1>5. Pool' = Pool \cup T /\ Pool \cap T = {}
  BY <1>2, <1>3 DEF Pool, PoolState
<1>6. IsFiniteSet(T)
  BY TaskAssumption, FS_Subset
<1>7. Cardinality(Pool') = Cardinality(Pool) + n
  <2>1. Cardinality(Pool \cup T) = Cardinality(Pool) + Cardinality(T) - Cardinality(Pool \cap T)
    BY <1>6, PoolFinite, FS_Union
  <2>2. Cardinality(T) = n
    BY <1>1
  <2>3. Cardinality(Pool \cap T) = 0
    BY <1>5, FS_EmptySet
  <2>4. Cardinality(Pool') = Cardinality(Pool \cup T)
    BY <1>5
  <2> QED
    BY <2>1, <2>2, <2>3, <2>4, PoolFinite
<1>8. \A t \in Task : pc'[t] = pc[t] \/ (pc[t] \notin LeasedState /\ pc'[t] \notin LeasedState)
  BY <1>2, <1>3 DEF LeasedState
<1> QED
  BY <1>4, <1>7, <1>8

\* Reaping finished handles touches neither the pool nor a lease.
LEMMA ReapPool ==
  ASSUME pc \in [Task -> TaskState], pc' = Reaped
  PROVE  /\ pc' \in [Task -> TaskState]
         /\ Pool' = Pool
         /\ \A t \in Task : pc'[t] = pc[t] \/ (pc[t] \notin LeasedState /\ pc'[t] \notin LeasedState)
<1>1. \A t \in Task : pc'[t] = IF pc[t] = "finished" THEN "free" ELSE pc[t]
  BY DEF Reaped
<1> QED
  BY <1>1 DEF Reaped, Pool, PoolState, LeasedState, TaskState

\* A VU only ever leaves the pool, and it takes itself off control_spawned when
\* it does, unless it is aborted before it has its guard.
LEMMA VuPoolStep ==
  ASSUME NEW t \in Task, PoolTypeOK,
         VuStep(t) \/ PassGate(t, "iter") \/ CompleteIteration(t)
  PROVE  /\ ctl' = ctl
         /\ ~Quiet(t)
         /\ \/ spawned' = spawned /\ Cardinality(Pool') <= Cardinality(Pool)
            \/ /\ spawned' = SatDec(spawned)
               /\ Cardinality(Pool) > 0
               /\ Cardinality(Pool') = Cardinality(Pool) - 1
<1>0. pc \in [Task -> TaskState] /\ Cardinality(Pool) \in Nat
  BY PoolFinite DEF PoolTypeOK
<1> USE DEF TaskState, PoolState, ctlVars, Quiet
<1>1. CASE StartVu(t) BY <1>1, <1>0, PoolStep DEF StartVu
<1>2. CASE InitFail(t) BY <1>2, <1>0, PoolStep DEF InitFail
<1>3. CASE LoopTop(t)
  <2>1. CASE Stopping BY <2>1, <1>3, <1>0, PoolStep DEF LoopTop
  <2>2. CASE ~Stopping BY <2>2, <1>3, <1>0, PoolStep DEF LoopTop
  <2> QED BY <2>1, <2>2
<1>4. CASE ReadRampDownTarget(t) BY <1>4, <1>0, PoolStep DEF ReadRampDownTarget
<1>5. CASE ClaimRampDown(t) BY <1>5, <1>0, PoolStep DEF ClaimRampDown
<1>6. CASE ClaimedExit(t) BY <1>6, <1>0, PoolStep DEF ClaimedExit
<1>7. CASE Panic(t) BY <1>7, <1>0, PoolStep DEF Panic
<1>8. CASE DropGuard(t) BY <1>8, <1>0, PoolStep DEF DropGuard
<1>9. CASE DropLease(t) BY <1>9, <1>0, PoolStep DEF DropLease
<1>10. CASE FinishTask(t) BY <1>10, <1>0, PoolStep DEF FinishTask
<1>11. CASE AbortTask(t) BY <1>11, <1>0, PoolStep DEF AbortTask
<1>12. CASE PassGate(t, "iter")
  <2>1. CASE Stopping BY <2>1, <1>12, <1>0, PoolStep DEF PassGate
  <2>2. CASE ~Stopping BY <2>2, <1>12, <1>0, PoolStep DEF PassGate
  <2> QED BY <2>1, <2>2
<1>13. CASE CompleteIteration(t) BY <1>13, <1>0, PoolStep DEF CompleteIteration
<1> QED
  BY <1>1, <1>2, <1>3, <1>4, <1>5, <1>6, <1>7, <1>8, <1>9, <1>10, <1>11, <1>12, <1>13
  DEF VuStep

-----------------------------------------------------------------------------
(* Types and leases.                                                       *)

\* The initial states satisfy the inductive invariant.
LEMMA InitOK == Init => IInv
<1> SUFFICES ASSUME Init PROVE IInv
  OBVIOUS
<1>1. PoolTypeOK /\ ActiveIsLeases
  BY PoolInitOK DEF Init
<1>2. TypeOK
  <2>1. patch \in [Conn -> Handler]
    BY DEF Init, Idle, Handler
  <2>2. ctl \in CtlState /\ apiCalls \in 0..MaxApi
    BY ControlAssumption DEF Init, CtlState, SeedState
  <2> QED
    BY <1>1, <2>1, <2>2, TaskAssumption DEF Init, TypeOK
<1>3. Ceiling
  BY ControlAssumption DEF Init, PoolInit, Ceiling, Idle
<1>4. Accounting
  BY DEF Init, PoolInit, Accounting, SeedState
<1> QED
  BY <1>1, <1>2, <1>3, <1>4 DEF IInv

\* The executor's own steps.
LEMMA TypeControl ==
  ASSUME TypeOK, ActiveIsLeases, Accounting, Control
  PROVE  TypeOK' /\ ActiveIsLeases'
<1>0. pc \in [Task -> TaskState]
  BY DEF TypeOK, PoolTypeOK
<1> USE ControlAssumption DEF TypeOK, PoolTypeOK, CtlState, LoopState, SeedState, Lower, vuVars, flags,
        rdVars, ctlVars, apiVars, locals, NextRound
<1>1a. CASE SeedHardMax \/ SeedMax \/ SeedTarget
  BY <1>1a DEF SeedHardMax, SeedMax, SeedTarget, ActiveIsLeases, Leased
<1>1b. CASE SpawnInitial
  <2>1. ctarget \in Nat
    OBVIOUS
  <2>2. /\ pc' \in [Task -> TaskState]
        /\ \A t \in Task : pc'[t] = pc[t] \/ (pc[t] \notin LeasedState /\ pc'[t] \notin LeasedState)
    BY <1>0, <1>1b, <2>1, SpawnPool DEF SpawnInitial
  <2> QED
    BY <1>1b, <2>1, <2>2, QuietKeepsLeases DEF SpawnInitial
<1>2. CASE StoreInitial
  BY <1>2 DEF StoreInitial, ActiveIsLeases, Leased
<1>3. CASE Register
  BY <1>3 DEF Register, ActiveIsLeases, Leased
<1>4. CASE LeaveLoop
  BY <1>0, <1>4, ReapPool, QuietKeepsLeases DEF LeaveLoop
<1>5. CASE PausedRound
  BY <1>0, <1>5, ReapPool, QuietKeepsLeases DEF PausedRound
<1>6. CASE Reconcile
  BY <1>0, <1>6, ReapPool, QuietKeepsLeases DEF Reconcile
<1>7. CASE Grow
  <2>1. goal - snap \in Nat
    BY <1>7 DEF Grow, Accounting
  <2>2. /\ pc' \in [Task -> TaskState]
        /\ \A t \in Task : pc'[t] = pc[t] \/ (pc[t] \notin LeasedState /\ pc'[t] \notin LeasedState)
    BY <1>0, <1>7, <2>1, SpawnPool DEF Grow
  <2> QED
    BY <1>7, <2>2, QuietKeepsLeases, TaskAssumption DEF Grow, clear_ramp_down
<1>8. CASE AddSpawned
  BY <1>8 DEF AddSpawned, Accounting, ActiveIsLeases, Leased
<1>9. CASE Shrink
  BY <1>9 DEF Shrink, set_ramp_down_target, SatSub, ActiveIsLeases, Leased
<1>10. CASE CheckStale
  BY <1>10 DEF CheckStale, ActiveIsLeases, Leased
<1>11. CASE ResetStale
  BY <1>11, TaskAssumption DEF ResetStale, clear_ramp_down, ActiveIsLeases, Leased
<1> QED
  BY <1>1a, <1>1b, <1>2, <1>3, <1>4, <1>5, <1>6, <1>7, <1>8, <1>9, <1>10, <1>11 DEF Control

\* A PATCH handler's step writes numbers, and leaves the pool alone.
LEMMA TypePatch ==
  ASSUME TypeOK, ActiveIsLeases, NEW c \in Conn, Patch(c)
  PROVE  TypeOK' /\ ActiveIsLeases'
<1>0. /\ patch \in [Conn -> Handler] /\ patch[c] \in Handler /\ Idle \in Handler
      /\ hard \in Nat /\ cmax \in Nat /\ ctarget \in Nat
  BY DEF TypeOK, Handler, Idle
<1>1. CASE PatchVus(c)
  <2>1. PICK vus \in ApiVus \cup {ctarget}, max \in ApiVus \cup {cmax} :
          set_control_target(c, vus, max)
    BY <1>1 DEF PatchVus
  <2>2. vus \in Nat /\ max \in Nat
    BY <1>0, ControlAssumption
  <2>3. Clamp(vus, Lower(max, hard)) \in Handler
    BY <1>0, <2>2 DEF Clamp, Lower, Handler
  <2>4. patch' \in [Conn -> Handler]
    BY <1>0, <2>1, <2>3 DEF set_control_target, Handle
  <2>5. apiCalls' \in 0..MaxApi
    BY <1>1, ControlAssumption DEF PatchVus, Served, TypeOK
  <2> QED
    BY <1>1, <2>4, <2>5 DEF PatchVus, TypeOK, PoolTypeOK, ActiveIsLeases, Leased, poolVars, vuVars,
       flags, rdVars, ctlVars, locals
<1>2. CASE StoreMax(c)
  <2>1. [patch[c] EXCEPT !.at = "target", !.max = 0] \in Handler /\ patch[c].max \in Nat
    BY <1>0 DEF Handler
  <2>2. patch' \in [Conn -> Handler] /\ cmax' \in Nat
    BY <1>0, <1>2, <2>1 DEF StoreMax, Handle
  <2>3. late' \in BOOLEAN
    BY <1>2 DEF StoreMax, Late, TypeOK
  <2> QED
    BY <1>2, <2>2, <2>3 DEF StoreMax, TypeOK, PoolTypeOK, ActiveIsLeases, Leased, poolVars, vuVars,
       flags, rdVars, ctlVars, locals
<1>3. CASE StoreTarget(c)
  <2>1. patch' \in [Conn -> Handler] /\ ctarget' \in Nat
    BY <1>0, <1>3 DEF StoreTarget, Handle, Handler
  <2>2. late' \in BOOLEAN
    BY <1>3 DEF StoreTarget, Late, TypeOK
  <2> QED
    BY <1>3, <2>1, <2>2 DEF StoreTarget, TypeOK, PoolTypeOK, ActiveIsLeases, Leased, poolVars, vuVars,
       flags, rdVars, ctlVars, locals
<1>4. CASE PatchPaused(c)
  <2>1. PoolTypeOK' /\ ActiveIsLeases'
    BY <1>4, TailKeeps DEF PatchPaused, TypeOK
  <2>2. apiCalls' \in 0..MaxApi
    BY <1>4, ControlAssumption DEF PatchPaused, Served, TypeOK
  <2> QED
    BY <1>4, <2>1, <2>2 DEF PatchPaused, TogglePaused, TypeOK, locals, ctlVars
<1> QED
  BY <1>1, <1>2, <1>3, <1>4 DEF Patch

\* Every step preserves the type invariant.
LEMMA TypeNext ==
  ASSUME TypeOK, ActiveIsLeases, Accounting, [Next]_vars
  PROVE  TypeOK' /\ ActiveIsLeases'
<1>0. PoolTypeOK /\ "iter" \in TaskState /\ "iter" \in LeasedState
  BY DEF TypeOK, TaskState, LeasedState
<1>1. CASE Control
  BY <1>1, TypeControl
<1>2. CASE Ending
  <2>1. PoolTypeOK' /\ ActiveIsLeases'
    BY <1>0, <1>2, TailKeeps DEF Ending
  <2> QED
    BY <1>2, <2>1 DEF Ending, RunTail, SoftStop, Drained, GraceExpired, HandlesJoined, JoinBoundExpired,
       TypeOK, CtlState, LoopState, apiVars, locals
<1>3. ASSUME NEW c \in Conn, Patch(c)
      PROVE  TypeOK' /\ ActiveIsLeases'
  BY <1>3, TypePatch
<1>5. CASE External
  <2>1. PoolTypeOK' /\ ActiveIsLeases'
    BY <1>0, <1>5, TailKeeps DEF External
  <2> QED
    BY <1>5, <2>1 DEF External, RequestStop, RequestForceStop, TypeOK, apiVars, locals, ctlVars
<1>6. ASSUME NEW t \in Task, Vu(t)
      PROVE  TypeOK' /\ ActiveIsLeases'
  <2>1. PoolTypeOK' /\ ActiveIsLeases'
    BY <1>0, <1>6, VuStepType, VuStepLeases, LoopStepType, LoopStepLeases DEF Vu
  <2>2. ctl' = ctl
    BY <1>0, <1>6, VuPoolStep DEF Vu
  <2> QED
    BY <1>6, <2>1, <2>2 DEF Vu, TypeOK, apiVars, locals
<1>7. CASE UNCHANGED vars
  BY <1>7 DEF vars, poolVars, vuVars, flags, rdVars, ctlVars, apiVars, locals, TypeOK, PoolTypeOK,
     ActiveIsLeases, Leased
<1> QED
  BY <1>1, <1>2, <1>3, <1>5, <1>6, <1>7 DEF Next

-----------------------------------------------------------------------------
(* The accounting of the pool.                                             *)

\* No handler's step touches the pool, its count or the loop.
LEMMA PatchLeavesPool ==
  ASSUME NEW c \in Conn, Patch(c)
  PROVE  /\ UNCHANGED <<pc, deaths, stop, force, rdTarget, rdRemaining, spawned, ctl, aborted, goal,
                        snap, hard>>
         /\ Pool' = Pool
<1>1. UNCHANGED <<pc, deaths, stop, force, rdTarget, rdRemaining, spawned, ctl, aborted, goal, snap, hard>>
  BY DEF Patch, PatchVus, StoreMax, StoreTarget, PatchPaused, TogglePaused, poolVars, vuVars, flags,
     rdVars, ctlVars, locals
<1> QED
  BY <1>1 DEF Pool

\* A VU's step: what it takes off control_spawned it takes off the pool.
LEMMA AccountingVu ==
  ASSUME TypeOK, Accounting, NEW t \in Task, Vu(t)
  PROVE  Accounting'
<1>1. /\ ctl' = ctl
      /\ ~Quiet(t)
      /\ \/ spawned' = spawned /\ Cardinality(Pool') <= Cardinality(Pool)
         \/ /\ spawned' = SatDec(spawned)
            /\ Cardinality(Pool) > 0
            /\ Cardinality(Pool') = Cardinality(Pool) - 1
  BY VuPoolStep DEF Vu, TypeOK
<1>2. Cardinality(Pool) \in Nat /\ Cardinality(Pool') \in Nat
  BY PoolIn, InFinite
<1>3. spawned \in Nat /\ goal \in Nat /\ snap \in Nat /\ goal' = goal /\ snap' = snap
  BY DEF TypeOK, PoolTypeOK, Vu, locals
<1>4. ctl \notin SeedState
  BY <1>1 DEF Accounting, Quiet
<1>5. spawned' \in Nat /\ spawned' <= spawned
  BY <1>1, <1>3 DEF SatDec
<1>6. CASE ctl = "add"
  BY <1>1, <1>2, <1>3, <1>5, <1>6 DEF Accounting, SatDec, SeedState
<1>7. CASE ctl = "store"
  BY <1>1, <1>2, <1>3, <1>5, <1>7 DEF Accounting, SeedState
<1>8. CASE ctl \notin SeedState \cup {"store", "add"}
  BY <1>1, <1>2, <1>3, <1>5, <1>8 DEF Accounting, SatDec
<1> QED
  BY <1>4, <1>6, <1>7, <1>8

\* The executor's steps.
LEMMA AccountingControl ==
  ASSUME TypeOK, Accounting, Control
  PROVE  Accounting'
<1>0. /\ pc \in [Task -> TaskState] /\ spawned \in Nat /\ goal \in Nat /\ snap \in Nat
      /\ cmax \in Nat /\ ctarget \in Nat
  BY DEF TypeOK, PoolTypeOK
<1>00. Cardinality(Pool) \in Nat /\ Cardinality(Pool') \in Nat
  BY PoolIn, InFinite
<1> USE DEF apiVars, locals, vuVars, NextRound, SeedState
<1>1a. CASE SeedHardMax \/ SeedMax \/ SeedTarget
  BY <1>1a DEF SeedHardMax, SeedMax, SeedTarget, Accounting
<1>1b. CASE SpawnInitial
  <2>1. Cardinality(Pool') = Cardinality(Pool) + ctarget
    BY <1>0, <1>1b, SpawnPool DEF SpawnInitial
  <2>2. Pool = {}
    BY <1>1b DEF SpawnInitial, Accounting, Pool, PoolState
  <2>3. Cardinality(Pool') = ctarget
    BY <1>0, <2>1, <2>2, FS_EmptySet
  <2> QED
    BY <1>0, <1>1b, <2>3 DEF SpawnInitial, Accounting
<1>2. CASE StoreInitial
  <2>1. Pool' = Pool
    BY <1>2 DEF StoreInitial, Pool
  <2> QED
    BY <1>0, <1>00, <1>2, <2>1 DEF StoreInitial, Accounting
<1>3. CASE Register
  <2>1. Pool' = Pool
    BY <1>3 DEF Register, Pool
  <2> QED
    BY <1>0, <1>00, <1>3, <2>1 DEF Register, Accounting
<1>4. CASE LeaveLoop \/ PausedRound
  <2>1. Pool' = Pool
    BY <1>0, <1>4, ReapPool DEF LeaveLoop, PausedRound
  <2> QED
    BY <1>0, <1>00, <1>4, <2>1 DEF LeaveLoop, PausedRound, Accounting, ctlVars
<1>6. CASE Reconcile
  <2>1. Pool' = Pool
    BY <1>0, <1>6, ReapPool DEF Reconcile
  <2>2. /\ ctl' \in {"grow", "shrink", "loop"}
        /\ ctl' = "grow" => snap' = spawned /\ snap' < goal'
    BY <1>0, <1>6 DEF Reconcile, Lower
  <2> QED
    BY <1>0, <1>00, <1>6, <2>1, <2>2 DEF Reconcile, Accounting
<1>7. CASE Grow
  <2>1. goal - snap \in Nat
    BY <1>0, <1>7 DEF Grow, Accounting
  <2>2. Cardinality(Pool') = Cardinality(Pool) + (goal - snap)
    BY <1>0, <1>7, <2>1, SpawnPool DEF Grow
  <2> QED
    BY <1>0, <1>00, <1>7, <2>1, <2>2 DEF Grow, Accounting
<1>8. CASE AddSpawned
  <2>1. Pool' = Pool
    BY <1>8 DEF AddSpawned, Pool
  <2> QED
    BY <1>0, <1>00, <1>8, <2>1 DEF AddSpawned, Accounting
<1>9. CASE Shrink \/ CheckStale \/ ResetStale
  <2>1. Pool' = Pool
    BY <1>9 DEF Shrink, CheckStale, ResetStale, Pool
  <2> QED
    BY <1>0, <1>00, <1>9, <2>1 DEF Shrink, CheckStale, ResetStale, Accounting
<1> QED
  BY <1>1a, <1>1b, <1>2, <1>3, <1>4, <1>6, <1>7, <1>8, <1>9 DEF Control

\* Every step preserves the accounting of the logical pool size.
LEMMA AccountingNext ==
  ASSUME TypeOK, ActiveIsLeases, Accounting, [Next]_vars
  PROVE  Accounting'
<1>0. PoolTypeOK
  BY DEF TypeOK
<1>1. CASE Control
  BY <1>1, AccountingControl
<1>2. CASE Ending
  <2>1. UNCHANGED <<pc, spawned>>
    BY <1>0, <1>2, TailKeeps DEF Ending
  <2>2. Pool' = Pool
    BY <2>1 DEF Pool
  <2> QED
    BY <1>2, <2>1, <2>2 DEF Ending, RunTail, SoftStop, Drained, GraceExpired, HandlesJoined,
       JoinBoundExpired, Accounting, SeedState, locals
<1>3. ASSUME NEW c \in Conn, Patch(c)
      PROVE  Accounting'
  BY <1>3, PatchLeavesPool DEF Accounting
<1>4. CASE External \/ UNCHANGED vars
  <2>1. UNCHANGED <<pc, spawned, ctl, goal, snap>>
    BY <1>4 DEF External, RequestStop, RequestForceStop, vars, poolVars, vuVars, ctlVars, locals
  <2>2. Pool' = Pool
    BY <2>1 DEF Pool
  <2> QED
    BY <2>1, <2>2 DEF Accounting
<1>5. ASSUME NEW t \in Task, Vu(t)
      PROVE  Accounting'
  BY <1>5, AccountingVu
<1> QED
  BY <1>1, <1>2, <1>3, <1>4, <1>5 DEF Next

-----------------------------------------------------------------------------
(* The ceiling.                                                            *)

\* A PATCH handler's step: what it stores is within the ceiling it loaded.
LEMMA CeilingPatch ==
  ASSUME TypeOK, Ceiling, NEW c \in Conn, Patch(c)
  PROVE  Ceiling'
<1>0. /\ patch \in [Conn -> Handler] /\ hard \in Nat /\ cmax \in Nat /\ ctarget \in Nat
      /\ MaxVus \in Nat /\ goal \in Nat /\ spawned \in Nat
      /\ UNCHANGED <<ctl, goal, snap, spawned, hard>>
  BY PatchLeavesPool, ControlAssumption DEF TypeOK, PoolTypeOK
<1>1. patch[c].vus \in Nat /\ patch[c].max \in Nat /\ patch[c].hard \in Nat
  BY <1>0 DEF Handler
<1>2. CASE PatchVus(c)
  <2>1. PICK vus \in ApiVus \cup {ctarget}, max \in ApiVus \cup {cmax} :
          set_control_target(c, vus, max)
    BY <1>2 DEF PatchVus
  <2>2. vus \in Nat /\ max \in Nat
    BY <1>0, ControlAssumption
  <2>3. /\ \A d \in Conn : d # c => patch'[d] = patch[d]
        /\ patch'[c] = Clamp(vus, Lower(max, hard))
    BY <1>0, <2>1 DEF set_control_target, Handle
  <2>4. patch'[c].vus <= hard /\ patch'[c].max <= hard /\ patch'[c].hard = hard
    BY <1>0, <2>2, <2>3 DEF Clamp, Lower
  <2>5. UNCHANGED <<cmax, ctarget, late>>
    BY <1>2 DEF PatchVus
  <2> QED
    BY <1>0, <2>3, <2>4, <2>5 DEF Ceiling
<1>3. CASE StoreMax(c)
  <2>1. /\ \A d \in Conn : d # c => patch'[d] = patch[d]
        /\ patch'[c] = [patch[c] EXCEPT !.at = "target", !.max = 0]
    BY <1>0, <1>3 DEF StoreMax, Handle
  <2>2. patch'[c].at = "target" /\ patch'[c].vus = patch[c].vus /\ patch'[c].hard = patch[c].hard
    BY <1>0, <2>1 DEF Handler
  <2>3. \A d \in Conn : /\ patch'[d].at = "max" => patch'[d].max <= patch'[d].hard
                        /\ patch'[d].at \in {"max", "target"} => patch'[d].vus <= patch'[d].hard
    BY <1>3, <2>1, <2>2 DEF Ceiling, StoreMax
  <2>4. ~late' => ~late /\ (patch[c].hard = hard \/ patch[c].max <= hard)
    <3>1. late' = (late \/ (patch[c].hard # hard /\ patch[c].max > hard))
      BY <1>3 DEF StoreMax, Late
    <3>2. ~late' => ~late /\ (patch[c].hard = hard \/ ~(patch[c].max > hard))
      BY <3>1
    <3> QED
      BY <1>0, <1>1, <3>2
  <2>5. ~late' /\ ctl # "seed" => cmax' <= MaxVus
    BY <1>0, <1>1, <1>3, <2>4 DEF StoreMax, Ceiling
  <2>6. ctarget' = ctarget
    BY <1>3 DEF StoreMax
  <2> QED
    BY <1>0, <2>3, <2>4, <2>5, <2>6 DEF Ceiling
<1>4. CASE StoreTarget(c)
  <2>1. /\ \A d \in Conn : d # c => patch'[d] = patch[d]
        /\ patch'[c].at = "idle"
    BY <1>0, <1>4 DEF StoreTarget, Handle, Idle
  <2>4. ~late' => ~late /\ (patch[c].hard = hard \/ patch[c].vus <= hard)
    <3>1. late' = (late \/ (patch[c].hard # hard /\ patch[c].vus > hard))
      BY <1>4 DEF StoreTarget, Late
    <3>2. ~late' => ~late /\ (patch[c].hard = hard \/ ~(patch[c].vus > hard))
      BY <3>1
    <3> QED
      BY <1>0, <1>1, <3>2
  <2>5. ~late' /\ ctl # "seed" => ctarget' <= MaxVus
    BY <1>0, <1>1, <1>4, <2>4 DEF StoreTarget, Ceiling
  <2>6. cmax' = cmax
    BY <1>4 DEF StoreTarget
  <2> QED
    BY <1>0, <2>1, <2>4, <2>5, <2>6 DEF Ceiling
<1>5. CASE PatchPaused(c)
  BY <1>0, <1>5 DEF PatchPaused, Ceiling
<1> QED
  BY <1>2, <1>3, <1>4, <1>5 DEF Patch

\* The executor's steps.
LEMMA CeilingControl ==
  ASSUME TypeOK, Accounting, Ceiling, Control
  PROVE  Ceiling'
<1>0. /\ spawned \in Nat /\ goal \in Nat /\ snap \in Nat /\ cmax \in Nat /\ ctarget \in Nat
      /\ MaxVus \in Nat /\ InitialVus \in Nat /\ patch' = patch /\ late' = late
  BY ControlAssumption
  DEF TypeOK, PoolTypeOK, Control, SeedHardMax, SeedMax, SeedTarget, SpawnInitial, StoreInitial, Register,
      LeaveLoop, PausedRound, Reconcile, Grow, AddSpawned, Shrink, CheckStale, ResetStale, apiVars
<1> USE DEF apiVars, locals, ctlVars, NextRound, Ceiling
<1>1. CASE SeedHardMax \/ SeedMax \/ SeedTarget
  BY <1>0, <1>1 DEF SeedHardMax, SeedMax, SeedTarget, Lower
<1>2. CASE SpawnInitial \/ StoreInitial \/ Register \/ LeaveLoop \/ PausedRound
  BY <1>0, <1>2 DEF SpawnInitial, StoreInitial, Register, LeaveLoop, PausedRound
<1>3. CASE Reconcile
  <2>1. /\ ctl' \in {"grow", "shrink", "loop"} /\ ctl = "loop"
        /\ UNCHANGED <<hard, cmax, spawned>>
        /\ goal' \in {0, Lower(ctarget, cmax)}
    BY <1>3 DEF Reconcile
  <2>2. ~late => goal' <= MaxVus
    BY <1>0, <2>1 DEF Lower
  <2> QED
    BY <1>0, <2>1, <2>2
<1>4. CASE Grow
  BY <1>0, <1>4 DEF Grow
<1>5. CASE AddSpawned
  BY <1>0, <1>5 DEF AddSpawned, Accounting
<1>6. CASE Shrink \/ CheckStale \/ ResetStale
  BY <1>0, <1>6 DEF Shrink, CheckStale, ResetStale
<1> QED
  BY <1>1, <1>2, <1>3, <1>4, <1>5, <1>6 DEF Control

\* Every step preserves what the ceiling says.
LEMMA CeilingNext ==
  ASSUME TypeOK, ActiveIsLeases, Accounting, Ceiling, [Next]_vars
  PROVE  Ceiling'
<1>0. PoolTypeOK /\ spawned \in Nat
  BY DEF TypeOK, PoolTypeOK
<1>1. CASE Control
  BY <1>1, CeilingControl
<1>2. CASE Ending
  <2>1. spawned' = spawned
    BY <1>0, <1>2, TailKeeps DEF Ending
  <2> QED
    BY <1>2, <2>1 DEF Ending, RunTail, SoftStop, Drained, GraceExpired, HandlesJoined, JoinBoundExpired,
       Ceiling, apiVars, locals
<1>3. ASSUME NEW c \in Conn, Patch(c)
      PROVE  Ceiling'
  BY <1>3, CeilingPatch
<1>4. CASE External \/ UNCHANGED vars
  BY <1>4 DEF External, RequestStop, RequestForceStop, vars, poolVars, ctlVars, apiVars, locals, Ceiling
<1>5. ASSUME NEW t \in Task, Vu(t)
      PROVE  Ceiling'
  <2>1. ctl' = ctl /\ spawned' \in {spawned, SatDec(spawned)}
    BY <1>0, <1>5, VuPoolStep DEF Vu
  <2>2. spawned' \in Nat /\ spawned' <= spawned
    BY <1>0, <2>1 DEF SatDec
  <2>3. MaxVus \in Nat /\ UNCHANGED <<ctarget, cmax, hard, patch, late, goal>>
    BY <1>5, ControlAssumption DEF Vu, apiVars, locals
  <2> QED
    BY <1>0, <2>1, <2>2, <2>3 DEF Ceiling
<1> QED
  BY <1>1, <1>2, <1>3, <1>4, <1>5 DEF Next

-----------------------------------------------------------------------------
(* The exact count.                                                        *)

\* A run nobody stopped, in which no VU died.
Calm == ~Stopping /\ deaths = 0

Won == In(pc, {"won"})

(***************************************************************************)
(* In a calm run the only way out of the pool is a ramp-down claim.  None  *)
(* is won before the loop runs, and between a grow's spawns and its        *)
(* fetch_add none is won either, so the claims that come off               *)
(* control_spawned there are among the VUs it already counted.             *)
(***************************************************************************)
Exact ==
  Calm =>
    /\ ctl \notin {"drain", "join", "done"} /\ ~aborted
    /\ \A t \in Task : pc[t] # "exit"
    /\ ctl \in SeedState \cup {"store", "register"} =>
         rdTarget = MaxU32 /\ \A t \in Task : pc[t] \notin {"cas", "won"}
    /\ ctl = "store" => Cardinality(Pool) = goal
    /\ ctl = "add" => /\ rdRemaining = 0
                      /\ Cardinality(Won) <= spawned
                      /\ Cardinality(Pool) = spawned + (goal - snap)
    /\ ctl \in {"register"} \cup (LoopState \ {"add"}) => spawned = Cardinality(Pool)

\* The winners have a number.
LEMMA WonFinite == Cardinality(Won) \in Nat /\ Cardinality(Won') \in Nat
BY InFinite DEF Won

\* In a calm run a VU's step keeps its place in the pool, and wins a claim only if
\* one is armed; or it is the exit of a winner, which comes off the count.
LEMMA CalmVu ==
  ASSUME TypeOK, Exact, NEW t \in Task, Vu(t), Calm'
  PROVE  /\ Calm
         /\ UNCHANGED <<ctl, aborted, rdTarget, goal, snap>>
         /\ \A u \in Task : pc'[u] # "exit"
         /\ rdTarget = MaxU32 /\ (\A u \in Task : pc[u] \notin {"cas", "won"}) =>
              \A u \in Task : pc'[u] \notin {"cas", "won"}
         /\ rdRemaining = 0 => rdRemaining' = 0
         /\ \/ /\ spawned' = spawned
               /\ Cardinality(Pool') = Cardinality(Pool)
               /\ rdRemaining = 0 => Cardinality(Won') <= Cardinality(Won)
            \/ /\ spawned' = SatDec(spawned)
               /\ Cardinality(Pool) > 0 /\ Cardinality(Pool') = Cardinality(Pool) - 1
               /\ Cardinality(Won) > 0 /\ Cardinality(Won') = Cardinality(Won) - 1
<1> USE DEF vuVars, flags, rdVars, ctlVars, apiVars, locals
<1>0. /\ pc \in [Task -> TaskState] /\ deaths \in Nat /\ spawned \in Nat /\ rdRemaining \in Nat
      /\ stop \in BOOLEAN /\ force \in BOOLEAN
  BY DEF TypeOK, PoolTypeOK
<1>00. Cardinality(Pool) \in Nat /\ Cardinality(Won) \in Nat
  BY PoolFinite, WonFinite
<1>1. Calm /\ deaths' = deaths
  <2>1. deaths' = deaths \/ deaths' = deaths + 1
    BY DEF Vu, VuStep, StartVu, InitFail, LoopTop, ReadRampDownTarget, ClaimRampDown, ClaimedExit,
       PassGate, CompleteIteration, Panic, DropGuard, DropLease, FinishTask, AbortTask
  <2>2. (stop' = stop \/ stop' = TRUE) /\ force' = force
    BY DEF Vu, VuStep, StartVu, InitFail, LoopTop, ReadRampDownTarget, ClaimRampDown, ClaimedExit,
       PassGate, CompleteIteration, Panic, DropGuard, DropLease, FinishTask, AbortTask
  <2>3. deaths' = 0 /\ ~stop' /\ ~force'
    BY DEF Calm, Stopping
  <2>4. deaths = 0
    BY <1>0, <2>1, <2>3
  <2>5. ~stop /\ ~force
    BY <2>2, <2>3
  <2> QED
    BY <2>3, <2>4, <2>5 DEF Calm, Stopping
<1>2. ~aborted /\ \A u \in Task : pc[u] # "exit"
  BY <1>1 DEF Exact
<1>3. UNCHANGED <<ctl, aborted, rdTarget, goal, snap>>
  BY DEF Vu, VuStep, StartVu, InitFail, LoopTop, ReadRampDownTarget, ClaimRampDown, ClaimedExit,
     PassGate, CompleteIteration, Panic, DropGuard, DropLease, FinishTask, AbortTask
<1>4. ASSUME NEW s \in TaskState, Goto(t, s), s # "exit", spawned' = spawned,
             pc[t] \in PoolState <=> s \in PoolState,
             s = "cas" => rdTarget # MaxU32,
             s = "won" => pc[t] = "cas" /\ rdRemaining # 0,
             rdRemaining = 0 => rdRemaining' = 0
      PROVE  /\ \A u \in Task : pc'[u] # "exit"
             /\ rdTarget = MaxU32 /\ (\A u \in Task : pc[u] \notin {"cas", "won"}) =>
                  \A u \in Task : pc'[u] \notin {"cas", "won"}
             /\ rdRemaining = 0 => rdRemaining' = 0
             /\ spawned' = spawned
             /\ Cardinality(Pool') = Cardinality(Pool)
             /\ rdRemaining = 0 => Cardinality(Won') <= Cardinality(Won)
  <2>1. pc'[t] = s /\ \A u \in Task : u # t => pc'[u] = pc[u]
    BY <1>0, <1>4, GotoMoves
  <2>2. Cardinality(Pool') = Cardinality(Pool)
    BY <1>0, <1>4, PoolStep
  <2>3. rdRemaining = 0 => Cardinality(Won') <= Cardinality(Won)
    <3>1. CASE s = "won"
      BY <1>4, <3>1
    <3>2. CASE s # "won" /\ pc[t] # "won"
      <4>1. Won' = Won
        BY <2>1, <3>2, InStep DEF Won
      <4> QED
        BY <4>1, <1>00
    <3>3. CASE s # "won" /\ pc[t] = "won"
      <4>1. Cardinality(Won') = Cardinality(Won) - 1
        BY <2>1, <3>3, InStep DEF Won
      <4> QED
        BY <4>1, <1>00
    <3> QED
      BY <3>1, <3>2, <3>3
  <2>4. \A u \in Task : pc'[u] # "exit"
    BY <1>2, <1>4, <2>1
  <2>5. rdTarget = MaxU32 /\ (\A u \in Task : pc[u] \notin {"cas", "won"}) =>
          \A u \in Task : pc'[u] \notin {"cas", "won"}
    BY <1>4, <2>1
  <2> QED
    BY <1>4, <2>2, <2>3, <2>4, <2>5
<1>5. CASE ClaimedExit(t)
  <2>1. pc[t] = "won" /\ Goto(t, "lease") /\ spawned' = SatDec(spawned) /\ rdRemaining' = rdRemaining
    BY <1>5 DEF ClaimedExit
  <2>2. pc'[t] = "lease" /\ \A u \in Task : u # t => pc'[u] = pc[u]
    BY <1>0, <2>1, GotoMoves
  <2>3. Cardinality(Pool) > 0 /\ Cardinality(Pool') = Cardinality(Pool) - 1
    BY <1>0, <2>1, PoolStep DEF PoolState, TaskState
  <2>4. Cardinality(Won) > 0 /\ Cardinality(Won') = Cardinality(Won) - 1
    BY <2>1, <2>2, InStep DEF Won
  <2>5. \A u \in Task : pc'[u] # "exit"
    BY <1>2, <2>2
  <2> QED
    BY <1>1, <1>3, <2>1, <2>3, <2>4, <2>2, <2>5
<1>6. CASE ~ClaimedExit(t)
  <2>1. ~Stopping
    BY <1>1 DEF Calm
  <2>2. \/ StartVu(t) \/ LoopTop(t) \/ ReadRampDownTarget(t) \/ ClaimRampDown(t) \/ DropLease(t)
        \/ FinishTask(t) \/ PassGate(t, "iter") \/ CompleteIteration(t)
    <3>1. ~AbortTask(t) /\ ~DropGuard(t)
      BY <1>2 DEF AbortTask, DropGuard
    <3>2. ~Panic(t) /\ ~InitFail(t)
      BY <1>0, <1>1 DEF Panic, InitFail
    <3> QED
      BY <1>6, <3>1, <3>2 DEF Vu, VuStep
  <2>3. PICK s \in TaskState :
          /\ Goto(t, s) /\ s # "exit" /\ spawned' = spawned
          /\ pc[t] \in PoolState <=> s \in PoolState
          /\ s = "cas" => rdTarget # MaxU32
          /\ s = "won" => pc[t] = "cas" /\ rdRemaining # 0
          /\ rdRemaining = 0 => rdRemaining' = 0
    <3> USE DEF TaskState, PoolState
    <3>1. CASE StartVu(t) BY <3>1 DEF StartVu
    <3>2. CASE LoopTop(t) BY <3>2, <2>1 DEF LoopTop
    <3>3. CASE ReadRampDownTarget(t) BY <3>3 DEF ReadRampDownTarget
    <3>4. CASE ClaimRampDown(t) BY <3>4, <1>0 DEF ClaimRampDown
    <3>5. CASE DropLease(t) BY <3>5 DEF DropLease
    <3>6. CASE FinishTask(t) BY <3>6 DEF FinishTask
    <3>7. CASE PassGate(t, "iter") BY <3>7, <2>1 DEF PassGate
    <3>8. CASE CompleteIteration(t) BY <3>8 DEF CompleteIteration
    <3> QED
      BY <2>2, <3>1, <3>2, <3>3, <3>4, <3>5, <3>6, <3>7, <3>8
  <2> QED
    BY <1>1, <1>3, <1>4, <2>3
<1> QED
  BY <1>5, <1>6

\* A VU's step preserves the exact count.
LEMMA ExactVu ==
  ASSUME TypeOK, Accounting, Exact, NEW t \in Task, Vu(t)
  PROVE  Exact'
<1> SUFFICES ASSUME Calm' PROVE Exact'
  BY DEF Exact
<1>0. /\ spawned \in Nat /\ goal \in Nat /\ snap \in Nat
      /\ Cardinality(Pool) \in Nat /\ Cardinality(Won) \in Nat /\ Cardinality(Won') \in Nat
  BY PoolFinite, WonFinite DEF TypeOK, PoolTypeOK
<1>1. Calm /\ UNCHANGED <<ctl, aborted, rdTarget, goal, snap>>
  BY CalmVu
<1>2. ctl = "store" => spawned' = spawned /\ Cardinality(Pool') = Cardinality(Pool)
  <2>1. CASE ctl = "store"
    <3>1. \A u \in Task : pc[u] \notin {"cas", "won"}
      BY <1>1, <2>1 DEF Exact
    <3>2. Won = {}
      BY <3>1 DEF Won, In
    <3>3. Cardinality(Won) = 0
      BY <3>2, FS_EmptySet
    <3> QED
      BY <3>3, CalmVu
  <2> QED
    BY <2>1
<1>3. ctl = "add" => /\ rdRemaining' = 0
                     /\ Cardinality(Won') <= spawned'
                     /\ Cardinality(Pool') = spawned' + (goal - snap)
  <2> SUFFICES ASSUME ctl = "add"
               PROVE  /\ rdRemaining' = 0
                      /\ Cardinality(Won') <= spawned'
                      /\ Cardinality(Pool') = spawned' + (goal - snap)
    OBVIOUS
  <2>1. rdRemaining = 0 /\ Cardinality(Won) <= spawned /\ Cardinality(Pool) = spawned + (goal - snap)
    BY <1>1 DEF Exact
  <2>2. rdRemaining' = 0
    BY <2>1, CalmVu
  <2>3. \/ /\ spawned' = spawned
           /\ Cardinality(Pool') = Cardinality(Pool) /\ Cardinality(Won') <= Cardinality(Won)
        \/ /\ spawned' = SatDec(spawned) /\ Cardinality(Won) > 0
           /\ Cardinality(Pool') = Cardinality(Pool) - 1 /\ Cardinality(Won') = Cardinality(Won) - 1
    BY <2>1, CalmVu
  <2> QED
    BY <1>0, <2>1, <2>2, <2>3 DEF SatDec
<1>4. ctl \in {"register"} \cup (LoopState \ {"add"}) => spawned' = Cardinality(Pool')
  <2> SUFFICES ASSUME ctl \in {"register"} \cup (LoopState \ {"add"})
               PROVE  spawned' = Cardinality(Pool')
    OBVIOUS
  <2>1. spawned = Cardinality(Pool)
    BY <1>1 DEF Exact
  <2>2. \/ spawned' = spawned /\ Cardinality(Pool') = Cardinality(Pool)
        \/ spawned' = SatDec(spawned) /\ Cardinality(Pool) > 0
           /\ Cardinality(Pool') = Cardinality(Pool) - 1
    BY CalmVu
  <2> QED
    BY <1>0, <2>1, <2>2 DEF SatDec
<1>5. \A u \in Task : pc'[u] # "exit"
  BY CalmVu
<1>6. ctl \in SeedState \cup {"store", "register"} =>
        rdTarget' = MaxU32 /\ \A u \in Task : pc'[u] \notin {"cas", "won"}
  <2>1. ctl \in SeedState \cup {"store", "register"} =>
          rdTarget = MaxU32 /\ \A u \in Task : pc[u] \notin {"cas", "won"}
    BY <1>1 DEF Exact
  <2> QED
    BY <1>1, <2>1, CalmVu
<1>7. ctl' \notin {"drain", "join", "done"} /\ ~aborted'
  BY <1>1 DEF Exact
<1>8. ctl' = "store" => Cardinality(Pool') = goal'
  BY <1>1, <1>2 DEF Exact
<1> QED
  BY <1>1, <1>3, <1>4, <1>5, <1>6, <1>7, <1>8 DEF Exact

\* The executor's steps preserve it.
LEMMA ExactControl ==
  ASSUME TypeOK, Accounting, Exact, Control
  PROVE  Exact'
<1> SUFFICES ASSUME Calm' PROVE Exact'
  BY DEF Exact
<1> USE DEF vuVars, flags, rdVars, ctlVars, apiVars, locals, NextRound
<1>0. /\ pc \in [Task -> TaskState] /\ spawned \in Nat /\ goal \in Nat /\ snap \in Nat
      /\ ctarget \in Nat /\ cmax \in Nat
      /\ Cardinality(Pool) \in Nat /\ Cardinality(Won) \in Nat
  BY PoolFinite, WonFinite DEF TypeOK, PoolTypeOK
<1>1. UNCHANGED <<deaths, stop, force, aborted>>
  BY DEF Control, SeedHardMax, SeedMax, SeedTarget, SpawnInitial, StoreInitial, Register, LeaveLoop,
     PausedRound, Reconcile, Grow, AddSpawned, Shrink, CheckStale, ResetStale
<1>2. Calm
  BY <1>1 DEF Calm, Stopping
<1>3. ~aborted' /\ \A t \in Task : pc[t] # "exit"
  BY <1>1, <1>2 DEF Exact
<1>4. ASSUME UNCHANGED pc
      PROVE  Pool' = Pool /\ \A t \in Task : pc'[t] # "exit"
  BY <1>3, <1>4 DEF Pool
<1>5. CASE SeedHardMax \/ SeedMax \/ SeedTarget
  BY <1>2, <1>3, <1>5 DEF SeedHardMax, SeedMax, SeedTarget, Exact, SeedState, LoopState
<1>6. CASE SpawnInitial
  <2>1. Cardinality(Pool') = Cardinality(Pool) + ctarget
    BY <1>0, <1>6, SpawnPool DEF SpawnInitial
  <2>2. Pool = {} /\ \A t \in Task : pc[t] = "free"
    BY <1>6 DEF SpawnInitial, Accounting, Pool, PoolState, SeedState
  <2>3. Cardinality(Pool') = goal'
    BY <1>0, <1>6, <2>1, <2>2, FS_EmptySet DEF SpawnInitial
  <2>4. \A t \in Task : pc'[t] \in {"free", "spawned"}
    BY <1>6, <2>2 DEF SpawnInitial, Spawn
  <2>5. rdTarget' = MaxU32 /\ ctl' = "store"
    BY <1>2, <1>6 DEF SpawnInitial, Exact, SeedState
  <2> QED
    BY <1>3, <2>3, <2>4, <2>5 DEF Exact, LoopState
<1>7. CASE StoreInitial
  BY <1>2, <1>3, <1>4, <1>7 DEF StoreInitial, Exact, LoopState
<1>8. CASE Register
  BY <1>2, <1>3, <1>4, <1>8 DEF Register, Exact, LoopState, SeedState
<1>9. CASE LeaveLoop \/ PausedRound \/ Reconcile
  <2>1. pc' = Reaped /\ ctl = "loop" /\ spawned' = spawned
    BY <1>9 DEF LeaveLoop, PausedRound, Reconcile
  <2>2. ctl' \in {"stopping", "loop", "grow", "shrink"}
    BY <1>9 DEF LeaveLoop, PausedRound, Reconcile
  <2>3. Pool' = Pool
    BY <1>0, <2>1, ReapPool
  <2>4. \A t \in Task : pc'[t] # "exit"
    BY <1>3, <2>1 DEF Reaped
  <2>5. spawned = Cardinality(Pool)
    BY <1>2, <2>1 DEF Exact, LoopState
  <2> QED
    BY <1>3, <2>1, <2>2, <2>3, <2>4, <2>5 DEF Exact, SeedState
<1>10. CASE Grow
  <2>1. goal - snap \in Nat
    BY <1>0, <1>10 DEF Grow, Accounting
  <2>2. Cardinality(Pool') = Cardinality(Pool) + (goal - snap)
    BY <1>0, <1>10, <2>1, SpawnPool DEF Grow
  <2>3. spawned = Cardinality(Pool)
    BY <1>2, <1>10 DEF Grow, Exact, LoopState
  <2>4. \A t \in Task : pc'[t] = pc[t] \/ (pc[t] \in {"free", "finished"} /\ pc'[t] = "spawned")
    BY <1>0, <1>10 DEF Grow, Spawn, Quiet
  <2>5. Won' = Won /\ \A t \in Task : pc'[t] # "exit"
    BY <1>3, <2>4 DEF Won, In
  <2>6. Won \subseteq Pool
    BY DEF Won, In, Pool, PoolState
  <2>7. Cardinality(Won) <= Cardinality(Pool)
    BY <2>6, PoolFinite, FS_Subset
  <2>8. ctl' = "add" /\ spawned' = spawned /\ goal' = goal /\ snap' = snap /\ rdRemaining' = 0
    BY <1>10 DEF Grow, clear_ramp_down
  <2> QED
    BY <1>0, <1>3, <2>2, <2>3, <2>5, <2>7, <2>8 DEF Exact, SeedState
<1>11. CASE AddSpawned
  <2>1. Cardinality(Pool) = spawned + (goal - snap)
    BY <1>2, <1>11 DEF AddSpawned, Exact
  <2>2. ctl' = "loop" /\ spawned' = spawned + (goal - snap) /\ UNCHANGED pc
    BY <1>11 DEF AddSpawned
  <2> QED
    BY <1>3, <1>4, <2>1, <2>2 DEF Exact, SeedState
<1>12. CASE Shrink \/ CheckStale \/ ResetStale
  <2>1. /\ ctl \in {"shrink", "check", "reset"} /\ ctl' \in {"loop", "check", "reset"}
        /\ UNCHANGED <<pc, spawned>>
    BY <1>12 DEF Shrink, CheckStale, ResetStale
  <2>2. spawned = Cardinality(Pool)
    BY <1>2, <2>1 DEF Exact, LoopState
  <2> QED
    BY <1>3, <1>4, <2>1, <2>2 DEF Exact, SeedState
<1> QED
  BY <1>5, <1>6, <1>7, <1>8, <1>9, <1>10, <1>11, <1>12 DEF Control

\* Every step preserves the exact count.
LEMMA ExactNext ==
  ASSUME TypeOK, ActiveIsLeases, Accounting, Exact, [Next]_vars
  PROVE  Exact'
<1>1. CASE Control
  BY <1>1, ExactControl
<1>2. ASSUME NEW t \in Task, Vu(t)
      PROVE  Exact'
  BY <1>2, ExactVu
<1>3. ASSUME NEW c \in Conn, Patch(c)
      PROVE  Exact'
  <2>1. Calm' <=> Calm
    BY <1>3, PatchLeavesPool DEF Calm, Stopping
  <2>2. Won' = Won
    BY <1>3, PatchLeavesPool DEF Won
  <2> QED
    BY <1>3, <2>1, <2>2, PatchLeavesPool DEF Exact
<1>4. CASE Ending
  <2>1. CASE SoftStop
    <3>1. ~Calm'
      BY <2>1 DEF SoftStop, Calm, Stopping
    <3> QED
      BY <3>1 DEF Exact
  <2>2. CASE GraceExpired
    <3>1. ~Calm'
      BY <2>2 DEF GraceExpired, Calm, Stopping
    <3> QED
      BY <3>1 DEF Exact
  <2>3. CASE Drained \/ HandlesJoined \/ JoinBoundExpired
    <3>1. ctl \in {"drain", "join"} /\ UNCHANGED <<stop, force, deaths>>
      BY <2>3 DEF Drained, HandlesJoined, JoinBoundExpired, vuVars, flags
    <3>2. ~Calm
      BY <3>1 DEF Exact
    <3>3. ~Calm'
      BY <3>1, <3>2 DEF Calm, Stopping
    <3> QED
      BY <3>3 DEF Exact
  <2> QED
    BY <1>4, <2>1, <2>2, <2>3 DEF Ending, RunTail
<1>5. CASE External
  <2>1. ~Calm'
    BY <1>5 DEF External, RequestStop, RequestForceStop, Calm, Stopping
  <2> QED
    BY <2>1 DEF Exact
<1>6. CASE UNCHANGED vars
  BY <1>6 DEF vars, poolVars, vuVars, flags, rdVars, ctlVars, locals, Exact, Calm, Stopping, Pool, Won
<1> QED
  BY <1>1, <1>2, <1>3, <1>4, <1>5, <1>6 DEF Next

-----------------------------------------------------------------------------
(* The theorems.                                                           *)

\* The invariant holds in every reachable state.
LEMMA Inductive == Spec => []IInv
<1>1. IInv /\ [Next]_vars => IInv'
  BY TypeNext, AccountingNext, CeilingNext DEF IInv
<1> QED
  BY <1>1, InitOK, PTL DEF Spec

\* Type correctness: no counter of the control loop or of the pool leaves Nat.
THEOREM TypeCorrect == Spec => []TypeOK
BY Inductive, PTL DEF IInv

\* active_vus always equals the number of VU tasks that hold a VuLease, for any
\* number of tasks, PATCHes, init failures, panics and aborts.
THEOREM LeasesCounted == Spec => []ActiveIsLeases
BY Inductive, PTL DEF IInv

\* The control loop never has more than max_vus VUs in its pool, whatever the
\* clients ask for and however exits, grows and PATCH handlers interleave, unless
\* a handler that loaded the ceiling before the seed stores more after it.
THEOREM PoolCapped == Spec => []PoolWithinCap
<1>1. IInv => PoolWithinCap
  <2> SUFFICES ASSUME IInv, ~late PROVE Cardinality(Pool) <= MaxVus
    BY DEF PoolWithinCap
  <2>0. /\ Cardinality(Pool) \in Nat /\ spawned \in Nat /\ goal \in Nat /\ snap \in Nat
        /\ MaxVus \in Nat
    BY PoolFinite, ControlAssumption DEF IInv, TypeOK, PoolTypeOK
  <2>1. CASE ctl \in SeedState
    <3>1. Pool = {}
      BY <2>1 DEF IInv, Accounting, Pool, PoolState
    <3> QED
      BY <2>0, <3>1, FS_EmptySet
  <2>2. CASE ctl \notin SeedState
    BY <2>0, <2>2 DEF IInv, Accounting, Ceiling
  <2> QED
    BY <2>1, <2>2
<1> QED
  BY <1>1, Inductive, PTL

\* As long as nobody stopped the run and no VU died, control_spawned is the number
\* of VUs in the pool whenever the loop is not in the middle of a grow, for any
\* number of VUs and any interleaving of grows with ramp-down claims.
THEOREM PoolIsCounted == Spec => []PoolCounted
<1>1. Init => Exact
  <2> SUFFICES ASSUME Init PROVE Exact
    OBVIOUS
  <2>1. ctl = "seed" /\ ~aborted /\ rdTarget = MaxU32 /\ \A t \in Task : pc[t] = "free"
    BY DEF Init, PoolInit
  <2> QED
    BY <2>1 DEF Exact, LoopState
<1>2. IInv /\ Exact /\ [Next]_vars => Exact'
  BY ExactNext DEF IInv
<1>3. Exact => PoolCounted
  BY DEF Exact, Calm, PoolCounted
<1> QED
  BY <1>1, <1>2, <1>3, Inductive, PTL DEF Spec

\* When the executor returns and nobody was aborted, every VU task has ended:
\* nothing it spawned outlives the run.
THEOREM NoStragglers == Spec => []DoneIsQuiet
<1>1. Init => DoneIsQuiet
  BY DEF Init, DoneIsQuiet
<1>2. IInv /\ DoneIsQuiet /\ [Next]_vars => DoneIsQuiet'
  <2> SUFFICES ASSUME IInv, DoneIsQuiet, [Next]_vars PROVE DoneIsQuiet'
    OBVIOUS
  <2>0. PoolTypeOK
    BY DEF IInv, TypeOK
  <2>1. CASE Control
    <3>1. CASE Reconcile
      <4>1. ctl' \in {"grow", "shrink", "loop"}
        BY <3>1 DEF Reconcile, NextRound
      <4> QED
        BY <4>1 DEF DoneIsQuiet
    <3>2. CASE ~Reconcile
      BY <2>1, <3>2 DEF Control, SeedHardMax, SeedMax, SeedTarget, SpawnInitial, StoreInitial,
         Register, LeaveLoop, PausedRound, Grow, AddSpawned, Shrink, CheckStale, ResetStale, NextRound,
         DoneIsQuiet, ctlVars
    <3> QED
      BY <3>1, <3>2
  <2>2. CASE Ending
    BY <2>2 DEF Ending, RunTail, SoftStop, Drained, GraceExpired, HandlesJoined, JoinBoundExpired,
       DoneIsQuiet, Quiet, vuVars
  <2>3. CASE External \/ UNCHANGED vars
    <3>1. UNCHANGED <<pc, ctl, aborted>>
      BY <2>3 DEF External, RequestStop, RequestForceStop, vars, poolVars, vuVars, ctlVars
    <3> QED
      BY <3>1 DEF DoneIsQuiet, Quiet
  <2>5. ASSUME NEW c \in Conn, Patch(c)
        PROVE  DoneIsQuiet'
    BY <2>5, PatchLeavesPool DEF DoneIsQuiet, Quiet
  <2>4. ASSUME NEW t \in Task, Vu(t)
        PROVE  DoneIsQuiet'
    <3>1. ctl' = ctl /\ ~Quiet(t)
      BY <2>0, <2>4, VuPoolStep DEF Vu
    <3>2. aborted' = aborted
      BY <2>4 DEF Vu, VuStep, StartVu, InitFail, LoopTop, ReadRampDownTarget, ClaimRampDown,
         ClaimedExit, PassGate, CompleteIteration, Panic, DropGuard, DropLease, FinishTask,
         AbortTask, ctlVars
    <3> QED
      BY <3>1, <3>2 DEF DoneIsQuiet
  <2> QED
    BY <2>1, <2>2, <2>3, <2>4, <2>5 DEF Next
<1> QED
  BY <1>1, <1>2, Inductive, PTL DEF Spec
=============================================================================
