---------------------------- MODULE VuPoolProofs ----------------------------
(***************************************************************************)
(* What every executor's proofs need of the VU pool: how a step of one     *)
(* task changes the number of tasks in a set of states, and that the steps *)
(* of VuPool keep PoolTypeOK and ActiveIsLeases.                           *)
(***************************************************************************)
EXTENDS VuPool, FiniteSetTheorems, TLAPS

\* The tasks that p puts into one of the states S.
In(p, S) == {u \in Task : p[u] \in S}

\* They are finitely many.
LEMMA InFinite ==
  ASSUME NEW S, NEW p
  PROVE  IsFiniteSet(In(p, S)) /\ Cardinality(In(p, S)) \in Nat
BY TaskAssumption, FS_Subset, FS_CardinalityType DEF In

\* When only task t moves, the number of tasks in the states S changes only as
\* t itself enters or leaves them.
LEMMA InStep ==
  ASSUME NEW S, NEW t \in Task, NEW p, NEW q,
         \A u \in Task : u # t => q[u] = p[u]
  PROVE  /\ (p[t] \in S <=> q[t] \in S) => In(q, S) = In(p, S)
         /\ p[t] \in S /\ q[t] \notin S =>
              /\ Cardinality(In(p, S)) > 0
              /\ Cardinality(In(q, S)) = Cardinality(In(p, S)) - 1
         /\ p[t] \notin S /\ q[t] \in S =>
              Cardinality(In(q, S)) = Cardinality(In(p, S)) + 1
<1>0. /\ IsFiniteSet(In(p, S)) /\ Cardinality(In(p, S)) \in Nat
      /\ IsFiniteSet(In(q, S)) /\ Cardinality(In(q, S)) \in Nat
  BY InFinite
<1>2. (p[t] \in S <=> q[t] \in S) => In(q, S) = In(p, S)
  BY DEF In
<1>3. ASSUME p[t] \in S, q[t] \notin S
      PROVE  /\ Cardinality(In(p, S)) > 0
             /\ Cardinality(In(q, S)) = Cardinality(In(p, S)) - 1
  <2>1. In(q, S) = In(p, S) \ {t} /\ t \in In(p, S)
    BY <1>3 DEF In
  <2>2. Cardinality(In(q, S)) = Cardinality(In(p, S)) - 1
    BY <2>1, <1>0, FS_RemoveElement
  <2> QED
    BY <2>2, <1>0
<1>4. ASSUME p[t] \notin S, q[t] \in S
      PROVE  Cardinality(In(q, S)) = Cardinality(In(p, S)) + 1
  <2>1. In(q, S) = In(p, S) \cup {t} /\ t \notin In(p, S)
    BY <1>4 DEF In
  <2> QED
    BY <2>1, <1>0, FS_AddElement
<1> QED
  BY <1>2, <1>3, <1>4

\* Goto moves one task.
LEMMA GotoMoves ==
  ASSUME NEW t \in Task, NEW s, pc \in [Task -> TaskState], Goto(t, s)
  PROVE  pc'[t] = s /\ \A u \in Task : u # t => pc'[u] = pc[u]
BY DEF Goto

\* The states whose tasks hold a lease.
LEMMA LeasedIn == Leased = In(pc, LeasedState) /\ Leased' = In(pc', LeasedState)
BY DEF Leased, In

\* The steps of a VU task that change neither active_vus nor who holds a lease.
LEMMA LeaseKept ==
  ASSUME NEW t \in Task, NEW s \in TaskState, pc \in [Task -> TaskState],
         Goto(t, s), pc[t] \in LeasedState <=> s \in LeasedState,
         ActiveIsLeases, active' = active
  PROVE  ActiveIsLeases'
<1>1. Leased' = Leased
  BY InStep, LeasedIn, GotoMoves
<1> QED
  BY <1>1 DEF ActiveIsLeases

\* A task that takes or drops its lease changes their number by one.
LEMMA LeaseMoved ==
  ASSUME NEW t \in Task, NEW s \in TaskState, pc \in [Task -> TaskState], Goto(t, s)
  PROVE  /\ pc[t] \in LeasedState /\ s \notin LeasedState =>
              Cardinality(Leased) > 0 /\ Cardinality(Leased') = Cardinality(Leased) - 1
         /\ pc[t] \notin LeasedState /\ s \in LeasedState =>
              Cardinality(Leased') = Cardinality(Leased) + 1
BY LeasedIn, InStep, GotoMoves

\* The pool starts well typed and without a lease.
LEMMA PoolInitOK ==
  ASSUME PoolInit
  PROVE  PoolTypeOK /\ ActiveIsLeases
<1>1. pc \in [Task -> TaskState] /\ seen \in [Task -> Nat]
  BY DEF PoolInit, TaskState
<1>2. deaths \in 0..MaxDeaths /\ active \in Nat /\ rdTarget \in Nat /\ rdRemaining \in Nat /\ spawned \in Nat
  BY TaskAssumption DEF PoolInit
<1>3. stop \in BOOLEAN /\ force \in BOOLEAN /\ paused \in BOOLEAN /\ aborted \in BOOLEAN
  BY DEF PoolInit
<1>4. Leased = {}
  BY DEF PoolInit, Leased, LeasedState
<1> QED
  BY <1>1, <1>2, <1>3, <1>4, FS_EmptySet DEF PoolTypeOK, ActiveIsLeases, PoolInit

\* A step of a VU task keeps the types of the pool.
LEMMA VuStepType ==
  ASSUME NEW t \in Task, PoolTypeOK, VuStep(t)
  PROVE  PoolTypeOK'
<1> USE DEF PoolTypeOK, Goto, TaskState, SatDec, vuVars, flags, rdVars, ctlVars
<1>1. CASE StartVu(t) BY <1>1 DEF StartVu
<1>2. CASE InitFail(t) BY <1>2, TaskAssumption DEF InitFail
<1>3. CASE LoopTop(t) BY <1>3 DEF LoopTop
<1>4. CASE ReadRampDownTarget(t) BY <1>4 DEF ReadRampDownTarget
<1>5. CASE ClaimRampDown(t) BY <1>5 DEF ClaimRampDown
<1>6. CASE ClaimedExit(t) BY <1>6 DEF ClaimedExit
<1>7. CASE Panic(t) BY <1>7, TaskAssumption DEF Panic
<1>8. CASE DropGuard(t) BY <1>8 DEF DropGuard
<1>9. CASE DropLease(t) BY <1>9 DEF DropLease
<1>10. CASE FinishTask(t) BY <1>10 DEF FinishTask
<1>11. CASE AbortTask(t) BY <1>11 DEF AbortTask
<1> QED
  BY <1>1, <1>2, <1>3, <1>4, <1>5, <1>6, <1>7, <1>8, <1>9, <1>10, <1>11 DEF VuStep

\* A step of a VU task keeps active_vus equal to the number of leases.
LEMMA VuStepLeases ==
  ASSUME NEW t \in Task, PoolTypeOK, ActiveIsLeases, VuStep(t)
  PROVE  ActiveIsLeases'
<1>0. pc \in [Task -> TaskState] /\ active \in Nat
  BY DEF PoolTypeOK
<1>00. Cardinality(Leased) \in Nat
  BY InFinite, LeasedIn
<1> USE DEF LeasedState, TaskState
<1>1. CASE StartVu(t)
  <2>1. Cardinality(Leased') = Cardinality(Leased) + 1
    BY <1>1, <1>0, LeaseMoved DEF StartVu
  <2> QED
    BY <1>1, <2>1 DEF StartVu, ActiveIsLeases
<1>2. CASE InitFail(t) BY <1>2, <1>0, LeaseKept DEF InitFail
<1>3. CASE LoopTop(t)
  <2>1. CASE Stopping BY <2>1, <1>3, <1>0, LeaseKept DEF LoopTop
  <2>2. CASE ~Stopping BY <2>2, <1>3, <1>0, LeaseKept DEF LoopTop
  <2> QED BY <2>1, <2>2
<1>4. CASE ReadRampDownTarget(t) BY <1>4, <1>0, LeaseKept DEF ReadRampDownTarget
<1>5. CASE ClaimRampDown(t) BY <1>5, <1>0, LeaseKept DEF ClaimRampDown
<1>6. CASE ClaimedExit(t) BY <1>6, <1>0, LeaseKept DEF ClaimedExit
<1>7. CASE Panic(t) BY <1>7, <1>0, LeaseKept DEF Panic
<1>8. CASE DropGuard(t) BY <1>8, <1>0, LeaseKept DEF DropGuard
<1>9. CASE DropLease(t)
  <2>1. Cardinality(Leased) > 0 /\ Cardinality(Leased') = Cardinality(Leased) - 1
    BY <1>9, <1>0, LeaseMoved DEF DropLease
  <2> QED
    BY <1>9, <2>1, <1>00 DEF DropLease, ActiveIsLeases, SatDec
<1>10. CASE FinishTask(t) BY <1>10, <1>0, LeaseKept DEF FinishTask
<1>11. CASE AbortTask(t) BY <1>11, <1>0, LeaseKept DEF AbortTask
<1> QED
  BY <1>1, <1>2, <1>3, <1>4, <1>5, <1>6, <1>7, <1>8, <1>9, <1>10, <1>11 DEF VuStep

\* So do the gate and the end of an iteration.
LEMMA LoopStepType ==
  ASSUME NEW t \in Task, NEW s \in TaskState, PoolTypeOK,
         PassGate(t, s) \/ CompleteIteration(t)
  PROVE  PoolTypeOK'
<1> USE DEF PoolTypeOK, Goto, TaskState, vuVars, flags, rdVars, ctlVars
<1>1. CASE PassGate(t, s) BY <1>1 DEF PassGate
<1>2. CASE CompleteIteration(t) BY <1>2 DEF CompleteIteration
<1> QED
  BY <1>1, <1>2

\* Passing the gate and completing an iteration touch no lease.
LEMMA LoopStepLeases ==
  ASSUME NEW t \in Task, NEW s \in LeasedState, PoolTypeOK, ActiveIsLeases,
         PassGate(t, s) \/ CompleteIteration(t)
  PROVE  ActiveIsLeases'
<1>0. pc \in [Task -> TaskState]
  BY DEF PoolTypeOK
<1> USE DEF LeasedState, TaskState
<1>1. CASE PassGate(t, s)
  <2>1. CASE Stopping BY <2>1, <1>1, <1>0, LeaseKept DEF PassGate
  <2>2. CASE ~Stopping BY <2>2, <1>1, <1>0, LeaseKept DEF PassGate
  <2> QED BY <2>1, <2>2
<1>2. CASE CompleteIteration(t) BY <1>2, <1>0, LeaseKept DEF CompleteIteration
<1> QED
  BY <1>1, <1>2

\* A spawn fills quiet slots and a reap empties finished ones: neither touches
\* a lease.
LEMMA QuietKeepsLeases ==
  ASSUME \A t \in Task : pc'[t] = pc[t] \/ (pc[t] \notin LeasedState /\ pc'[t] \notin LeasedState),
         ActiveIsLeases, active' = active
  PROVE  ActiveIsLeases'
<1>1. Leased' = Leased
  BY DEF Leased
<1> QED
  BY <1>1 DEF ActiveIsLeases

\* The tail of an executor and the requests from outside keep both.
LEMMA TailKeeps ==
  ASSUME PoolTypeOK, ActiveIsLeases,
         RunTail \/ RequestStop \/ RequestForceStop \/ TogglePaused
  PROVE  PoolTypeOK' /\ ActiveIsLeases' /\ UNCHANGED <<pc, spawned>>
<1> USE DEF PoolTypeOK, ActiveIsLeases, Leased, vuVars, flags, rdVars, ctlVars
<1>1. CASE RunTail
  BY <1>1 DEF RunTail, SoftStop, Drained, GraceExpired, HandlesJoined, JoinBoundExpired
<1>2. CASE RequestStop \/ RequestForceStop \/ TogglePaused
  BY <1>2 DEF RequestStop, RequestForceStop, TogglePaused
<1> QED
  BY <1>1, <1>2

-----------------------------------------------------------------------------
(* The handles an executor holds.                                          *)

\* The tasks whose JoinHandle the executor holds when p says where they are.
Held(p) == {u \in Task : p[u] # "free"}

\* They are finitely many.
LEMMA HeldFinite ==
  ASSUME NEW p
  PROVE  IsFiniteSet(Held(p)) /\ Cardinality(Held(p)) \in Nat
BY TaskAssumption, FS_Subset, FS_CardinalityType DEF Held

\* No step of a VU gives up its own handle.
LEMMA VuKeepsHeld ==
  ASSUME NEW t \in Task, NEW s \in TaskState, s # "free", pc \in [Task -> TaskState],
         VuStep(t) \/ PassGate(t, s) \/ CompleteIteration(t)
  PROVE  Held(pc') = Held(pc)
<1>1. ASSUME NEW r \in TaskState, r # "free", Goto(t, r), pc[t] # "free"
      PROVE  Held(pc') = Held(pc)
  BY <1>1, GotoMoves DEF Held
<1> USE DEF TaskState
<1>2. CASE StartVu(t) BY <1>1, <1>2 DEF StartVu
<1>3. CASE InitFail(t) BY <1>1, <1>3 DEF InitFail
<1>4. CASE LoopTop(t)
  <2>1. CASE Stopping BY <1>1, <1>4, <2>1 DEF LoopTop
  <2>2. CASE ~Stopping BY <1>1, <1>4, <2>2 DEF LoopTop
  <2> QED BY <2>1, <2>2
<1>5. CASE ReadRampDownTarget(t) BY <1>1, <1>5 DEF ReadRampDownTarget
<1>6. CASE ClaimRampDown(t) BY <1>1, <1>6 DEF ClaimRampDown
<1>7. CASE ClaimedExit(t) BY <1>1, <1>7 DEF ClaimedExit
<1>8. CASE Panic(t) BY <1>1, <1>8 DEF Panic
<1>9. CASE DropGuard(t) BY <1>1, <1>9 DEF DropGuard
<1>10. CASE DropLease(t) BY <1>1, <1>10 DEF DropLease
<1>11. CASE FinishTask(t) BY <1>1, <1>11 DEF FinishTask
<1>12. CASE AbortTask(t) BY <1>1, <1>12 DEF AbortTask
<1>13. CASE PassGate(t, s)
  <2>1. CASE Stopping /\ Goto(t, "exit") BY <1>1, <1>13, <2>1 DEF PassGate
  <2>2. CASE Goto(t, s) BY <1>1, <1>13, <2>2 DEF PassGate
  <2> QED BY <1>13, <2>1, <2>2 DEF PassGate
<1>14. CASE CompleteIteration(t) BY <1>1, <1>14 DEF CompleteIteration
<1> QED
  BY <1>2, <1>3, <1>4, <1>5, <1>6, <1>7, <1>8, <1>9, <1>10, <1>11, <1>12, <1>13, <1>14
  DEF VuStep

\* A spawn into free slots adds as many handles as it fills slots.
LEMMA SpawnAddsHeld ==
  ASSUME NEW p, NEW q, NEW T \in SUBSET {t \in Task : p[t] = "free"},
         q = [t \in Task |-> IF t \in T THEN "spawned" ELSE p[t]]
  PROVE  Cardinality(Held(q)) = Cardinality(Held(p)) + Cardinality(T)
<1>1. Held(q) = Held(p) \cup T /\ Held(p) \cap T = {}
  BY DEF Held
<1>2. IsFiniteSet(T) /\ Cardinality(T) \in Nat
  BY TaskAssumption, FS_Subset, FS_CardinalityType
<1>3. IsFiniteSet(Held(p)) /\ Cardinality(Held(p)) \in Nat
  BY HeldFinite
<1>4. Cardinality(Held(p) \cup T) = Cardinality(Held(p)) + Cardinality(T) - Cardinality(Held(p) \cap T)
  BY <1>2, <1>3, FS_Union
<1>5. Cardinality(Held(p) \cap T) = 0
  BY <1>1, FS_EmptySet
<1> QED
  BY <1>1, <1>2, <1>3, <1>4, <1>5
=============================================================================
