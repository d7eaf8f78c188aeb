---------------------- MODULE IterationExecutorsProofs ----------------------
(***************************************************************************)
(* Proofs about IterationExecutors, for every number of tasks and VUs,     *)
(* every budget, and every number of VUs that die.                         *)
(***************************************************************************)
EXTENDS IterationExecutors, VuPoolProofs

\* The states in which a VU will start no iteration any more.
Over == {"exit", "lease", "ending", "finished"}

\* The iterations that ended, each as the VU that ran it and its number there.
Did == {x \in Task \X Nat : x[2] \in 1..index[x[1]]}

(***************************************************************************)
(* Nothing arms a ramp-down, so no VU leaves that way; and a run that is   *)
(* not stopped has not reached its tail.                                   *)
(***************************************************************************)
Undisturbed ==
  /\ rdTarget = MaxU32 /\ \A t \in Task : pc[t] \notin {"cas", "won"}
  /\ force \/ aborted \/ ctl \in {"drain", "join"} => stop
  /\ ctl = "done" /\ ~stop => \A t \in Task : Quiet(t)

\* The handles are those of the VUs that were spawned.
Handles == Cardinality(In(pc, TaskState \ {"free"})) = IF ctl = "start" THEN 0 ELSE Vus

\* What ended was counted, once for each VU and once for all.
Counted == IsFiniteSet(Did) /\ Cardinality(Did) = completed

\* A VU of per-vu-iterations that may start another iteration is below its
\* budget; one that was never spawned has done nothing.
BelowBudget ==
  /\ mode = "per-vu" /\ Budget > 0 =>
       \A t \in Task : index[t] <= Budget /\ (pc[t] \notin Over => index[t] < Budget)
  /\ \A t \in Task : pc[t] = "free" => index[t] = 0

(***************************************************************************)
(* With no stop and no death a VU leaves for one reason only: the budget,  *)
(* the shared one or its own, is used up; and no claim is lost.            *)
(***************************************************************************)
LeavesDone ==
  ~stop /\ deaths = 0 /\ Budget > 0 =>
    /\ mode = "shared" =>
         /\ completed + Cardinality(In(pc, {"iter"})) = claimed
         /\ \A t \in Task : pc[t] \in Over => claimed = Budget
    /\ mode = "per-vu" => \A t \in Task : pc[t] \in Over => index[t] = Budget

\* In shared-iterations what ran and what runs was claimed.
Claimed ==
  mode = "shared" => completed + Cardinality(In(pc, {"iter"})) <= claimed /\ claimed <= Budget

IterInv ==
  TypeOK /\ Undisturbed /\ Handles /\ Counted /\ BelowBudget /\ LeavesDone /\ Claimed

-----------------------------------------------------------------------------
(* What a step of a VU does.                                               *)

(***************************************************************************)
(* A step that is the same in every executor takes its task from one state *)
(* to another: it starts no iteration, no VU that is over comes back, and  *)
(* one becomes over because of a stop, an abort or a death.                *)
(***************************************************************************)
Moves(t, s) ==
  /\ Goto(t, s) /\ s \in TaskState \ {"free", "iter", "cas", "won"}
  /\ ~Quiet(t)
  /\ pc[t] \in Over => s \in Over
  /\ pc[t] \notin Over /\ s \in Over => Stopping \/ aborted \/ deaths' # 0
  /\ pc[t] = "iter" => s \in Over
  /\ deaths' = deaths \/ deaths' = deaths + 1
  /\ UNCHANGED <<stop, force, rdTarget, ctl, aborted>>

\* Every step of VuStep is such a move.
LEMMA VuStepMoves ==
  ASSUME NEW t \in Task, PoolTypeOK, Undisturbed, VuStep(t)
  PROVE  \E s : Moves(t, s)
<1>0. pc \in [Task -> TaskState] /\ deaths \in Nat /\ pc[t] \notin {"cas", "won"} /\ rdTarget = MaxU32
  BY TaskAssumption DEF PoolTypeOK, Undisturbed
<1> USE <1>0 DEF Moves, Quiet, Over, TaskState, flags, rdVars, ctlVars
<1>1. CASE StartVu(t) BY <1>1 DEF StartVu
<1>2. CASE InitFail(t) BY <1>2 DEF InitFail
<1>3. CASE LoopTop(t)
  <2>1. CASE Stopping BY <1>3, <2>1 DEF LoopTop
  <2>2. CASE ~Stopping BY <1>3, <2>2 DEF LoopTop
  <2> QED BY <2>1, <2>2
<1>4. CASE ReadRampDownTarget(t)
  <2>1. Goto(t, "gate")
    BY <1>4 DEF ReadRampDownTarget
  <2> QED
    BY <1>4, <2>1 DEF ReadRampDownTarget
<1>5. CASE ClaimRampDown(t) BY <1>5 DEF ClaimRampDown
<1>6. CASE ClaimedExit(t) BY <1>6 DEF ClaimedExit
<1>7. CASE Panic(t) BY <1>7 DEF Panic
<1>8. CASE DropGuard(t) BY <1>8 DEF DropGuard
<1>9. CASE DropLease(t) BY <1>9 DEF DropLease
<1>10. CASE FinishTask(t) BY <1>10 DEF FinishTask
<1>11. CASE AbortTask(t) BY <1>11 DEF AbortTask
<1> QED
  BY <1>1, <1>2, <1>3, <1>4, <1>5, <1>6, <1>7, <1>8, <1>9, <1>10, <1>11 DEF VuStep

\* A VU that moves stays a handle of the executor.
LEMMA HandlesKept ==
  ASSUME NEW t \in Task, NEW s \in TaskState, pc \in [Task -> TaskState], Handles,
         Goto(t, s), pc[t] # "free", s # "free", ctl' = ctl
  PROVE  Handles'
<1>1. In(pc', TaskState \ {"free"}) = In(pc, TaskState \ {"free"})
  BY InStep, GotoMoves
<1> QED
  BY <1>1 DEF Handles

\* The VUs in an iteration are counted as they enter and leave it.
LEMMA RunningMoves ==
  ASSUME NEW t \in Task, NEW s, pc \in [Task -> TaskState], Goto(t, s)
  PROVE  /\ Cardinality(In(pc, {"iter"})) \in Nat /\ Cardinality(In(pc', {"iter"})) \in Nat
         /\ (pc[t] = "iter" <=> s = "iter") =>
              Cardinality(In(pc', {"iter"})) = Cardinality(In(pc, {"iter"}))
         /\ pc[t] = "iter" /\ s # "iter" =>
              Cardinality(In(pc', {"iter"})) = Cardinality(In(pc, {"iter"})) - 1
         /\ pc[t] # "iter" /\ s = "iter" =>
              Cardinality(In(pc', {"iter"})) = Cardinality(In(pc, {"iter"})) + 1
<1>1. pc'[t] = s /\ \A u \in Task : u # t => pc'[u] = pc[u]
  BY GotoMoves
<1>2. Cardinality(In(pc, {"iter"})) \in Nat /\ Cardinality(In(pc', {"iter"})) \in Nat
  BY InFinite
<1> QED
  BY <1>1, <1>2, InStep

\* The budget is a number.
LEMMA BudgetNat == Budget \in Nat
BY IterationAssumption DEF Budget

\* A step of VuStep keeps the invariant.
LEMMA StepKeeps ==
  ASSUME IterInv, NEW t \in Task, VuStep(t), UNCHANGED iterVars
  PROVE  IterInv'
<1>0. PoolTypeOK /\ PoolTypeOK' /\ pc \in [Task -> TaskState] /\ deaths \in Nat /\ Undisturbed
  BY VuStepType, TaskAssumption DEF IterInv, TypeOK, PoolTypeOK
<1>1. PICK s : Moves(t, s)
  BY <1>0, VuStepMoves
<1>2. Goto(t, s) /\ s \in TaskState /\ pc'[t] = s /\ \A u \in Task : u # t => pc'[u] = pc[u]
  BY <1>0, <1>1, GotoMoves DEF Moves
<1>3. UNCHANGED <<mode, claimed, completed, index, stop, force, rdTarget, ctl, aborted>>
  BY <1>1 DEF Moves, iterVars
<1>4. TypeOK'
  BY <1>0, <1>3 DEF IterInv, TypeOK
<1>5. Undisturbed'
  BY <1>0, <1>1, <1>2, <1>3 DEF Undisturbed, Moves, Quiet
<1>6. Handles'
  BY <1>0, <1>1, <1>2, <1>3, HandlesKept DEF IterInv, Moves, Quiet
<1>7. Counted'
  BY <1>3 DEF IterInv, Counted, Did
<1>8. BelowBudget'
  BY <1>1, <1>2, <1>3 DEF IterInv, BelowBudget, Budget, Moves
<1>9. LeavesDone'
  <2> SUFFICES ASSUME ~stop, deaths' = 0, Budget > 0
               PROVE  /\ mode = "shared" =>
                           /\ completed + Cardinality(In(pc', {"iter"})) = claimed
                           /\ \A u \in Task : pc'[u] \in Over => claimed = Budget
                      /\ mode = "per-vu" => \A u \in Task : pc'[u] \in Over => index[u] = Budget
    BY <1>3 DEF LeavesDone, Budget
  <2>1. deaths = 0 /\ ~Stopping /\ ~aborted
    BY <1>0, <1>1 DEF Moves, Undisturbed, Stopping
  <2>2. pc[t] \in Over <=> s \in Over
    BY <1>1, <2>1 DEF Moves
  <2>3. pc[t] # "iter" /\ s # "iter"
    BY <1>1, <2>2 DEF Moves, Over
  <2>4. Cardinality(In(pc', {"iter"})) = Cardinality(In(pc, {"iter"}))
    BY <1>0, <1>2, <2>3, RunningMoves
  <2> QED
    BY <1>2, <2>1, <2>2, <2>4 DEF IterInv, LeavesDone
<1>10. Claimed'
  <2>1. /\ Cardinality(In(pc', {"iter"})) <= Cardinality(In(pc, {"iter"}))
        /\ Cardinality(In(pc', {"iter"})) \in Nat /\ Cardinality(In(pc, {"iter"})) \in Nat
    BY <1>0, <1>1, <1>2, RunningMoves DEF Moves
  <2>2. completed \in Nat /\ claimed \in Nat
    BY DEF IterInv, TypeOK
  <2> QED
    BY <1>3, <2>1, <2>2, BudgetNat DEF IterInv, Claimed, Budget
<1> QED
  BY <1>4, <1>5, <1>6, <1>7, <1>8, <1>9, <1>10 DEF IterInv

\* So does a claim, won or lost ...
LEMMA ClaimKeeps ==
  ASSUME IterInv, NEW t \in Task, ClaimIteration(t)
  PROVE  IterInv'
<1>0. /\ PoolTypeOK /\ pc \in [Task -> TaskState] /\ Undisturbed
      /\ claimed \in Nat /\ completed \in Nat /\ Budget \in Nat
  BY BudgetNat DEF IterInv, TypeOK, PoolTypeOK
<1>1. /\ pc[t] = "gate" /\ mode = "shared" /\ ~Stopping
      /\ UNCHANGED <<seen, deaths, active, stop, force, rdTarget, rdRemaining, spawned, paused, ctl, aborted>>
      /\ UNCHANGED <<mode, completed, index>>
  BY DEF ClaimIteration, flags, rdVars, ctlVars
<1>2. PICK s \in {"iter", "exit"} :
        /\ Goto(t, s)
        /\ s = "iter" => claimed < Budget /\ claimed' = claimed + 1
        /\ s = "exit" => ~(claimed < Budget) /\ claimed' = claimed
  BY DEF ClaimIteration
<1>3. s \in TaskState /\ pc'[t] = s /\ \A u \in Task : u # t => pc'[u] = pc[u]
  BY <1>0, <1>2, GotoMoves DEF TaskState
<1>4. TypeOK'
  <2>1. pc' \in [Task -> TaskState]
    BY <1>0, <1>2, <1>3 DEF Goto
  <2>2. claimed' \in Nat
    BY <1>0, <1>2
  <2> QED
    BY <1>1, <2>1, <2>2 DEF IterInv, TypeOK, PoolTypeOK
<1>5. Undisturbed'
  BY <1>0, <1>1, <1>2, <1>3 DEF Undisturbed, Quiet
<1>6. Handles'
  BY <1>0, <1>1, <1>2, <1>3, HandlesKept DEF IterInv
<1>7. Counted'
  BY <1>1 DEF IterInv, Counted, Did
<1>8. BelowBudget'
  BY <1>1, <1>2, <1>3 DEF IterInv, BelowBudget, Budget
<1>9. /\ Cardinality(In(pc, {"iter"})) \in Nat
      /\ s = "iter" => Cardinality(In(pc', {"iter"})) = Cardinality(In(pc, {"iter"})) + 1
      /\ s = "exit" => Cardinality(In(pc', {"iter"})) = Cardinality(In(pc, {"iter"}))
  BY <1>0, <1>1, <1>2, RunningMoves
<1>10. Claimed'
  BY <1>0, <1>1, <1>2, <1>9 DEF IterInv, Claimed, Budget
<1>11. LeavesDone'
  <2>1. \A u \in Task : u # t => (pc'[u] \in Over <=> pc[u] \in Over)
    BY <1>3
  <2>2. s = "iter" => pc'[t] \notin Over
    BY <1>3 DEF Over
  <2>3. claimed <= Budget
    BY <1>1 DEF IterInv, Claimed
  <2>4. CASE s = "iter"
    <3>1. claimed < Budget /\ claimed' = claimed + 1
      BY <2>4, <1>2
    <3> SUFFICES ASSUME ~stop, deaths = 0, Budget > 0
                 PROVE  /\ completed + Cardinality(In(pc', {"iter"})) = claimed'
                        /\ \A u \in Task : pc'[u] \notin Over
      BY <1>1 DEF LeavesDone, Budget
    <3>2. /\ completed + Cardinality(In(pc, {"iter"})) = claimed
          /\ \A u \in Task : pc[u] \in Over => claimed = Budget
      BY <1>1 DEF IterInv, LeavesDone
    <3>3. \A u \in Task : pc[u] \notin Over
      BY <1>0, <3>1, <3>2
    <3>4. completed + Cardinality(In(pc', {"iter"})) = claimed'
      BY <1>0, <2>4, <3>1, <3>2, <1>9
    <3>5. \A u \in Task : pc'[u] \notin Over
      BY <2>4, <3>3, <2>1, <2>2
    <3> QED
      BY <3>4, <3>5
  <2>5. CASE s = "exit"
    <3>1. claimed' = claimed /\ claimed = Budget
      BY <2>5, <1>0, <1>2, <2>3
    <3> QED
      BY <1>0, <1>1, <2>5, <3>1, <1>9 DEF IterInv, LeavesDone, Budget
  <2> QED
    BY <1>2, <2>4, <2>5
<1> QED
  BY <1>4, <1>5, <1>6, <1>7, <1>8, <1>10, <1>11 DEF IterInv

\* ... a VU that passes the gate with nothing to claim ...
LEMMA PassKeeps ==
  ASSUME IterInv, NEW t \in Task, PassFreely(t)
  PROVE  IterInv'
<1>0. /\ PoolTypeOK /\ pc \in [Task -> TaskState] /\ Undisturbed
      /\ claimed \in Nat /\ completed \in Nat /\ Budget \in Nat
  BY BudgetNat DEF IterInv, TypeOK, PoolTypeOK
<1>1. /\ pc[t] = "gate"
      /\ UNCHANGED <<seen, deaths, active, stop, force, rdTarget, rdRemaining, spawned, paused, ctl, aborted>>
      /\ UNCHANGED <<mode, claimed, completed, index>>
  BY DEF PassFreely, PassGate, flags, rdVars, ctlVars, iterVars
<1>2. PICK s \in {"iter", "exit"} :
        /\ Goto(t, s)
        /\ s = "iter" => ~Stopping /\ mode = "per-vu"
        /\ s = "exit" => Stopping
  BY DEF PassFreely, PassGate
<1>3. s \in TaskState /\ pc'[t] = s /\ \A u \in Task : u # t => pc'[u] = pc[u]
  BY <1>0, <1>2, GotoMoves DEF TaskState
<1>4. TypeOK'
  <2>1. pc' \in [Task -> TaskState]
    BY <1>0, <1>2, <1>3 DEF Goto
  <2> QED
    BY <1>1, <2>1 DEF IterInv, TypeOK, PoolTypeOK
<1>5. Undisturbed'
  BY <1>0, <1>1, <1>2, <1>3 DEF Undisturbed, Quiet
<1>6. Handles'
  BY <1>0, <1>1, <1>2, <1>3, HandlesKept DEF IterInv
<1>7. Counted'
  BY <1>1 DEF IterInv, Counted, Did
<1>8. BelowBudget'
  BY <1>1, <1>2, <1>3 DEF IterInv, BelowBudget, Budget, Over
<1>9. mode = "shared" => Cardinality(In(pc', {"iter"})) = Cardinality(In(pc, {"iter"}))
  BY <1>0, <1>1, <1>2, RunningMoves
<1>10. Claimed'
  BY <1>1, <1>9 DEF IterInv, Claimed, Budget
<1>11. LeavesDone'
  <2>1. CASE s = "iter"
    <3>1. \A u \in Task : pc'[u] \in Over => pc[u] \in Over
      BY <2>1, <1>3 DEF Over
    <3>2. mode = "per-vu"
      BY <2>1, <1>2
    <3> QED
      BY <1>1, <3>1, <3>2 DEF IterInv, LeavesDone, Budget
  <2>2. CASE s = "exit"
    <3>1. stop
      BY <2>2, <1>0, <1>2 DEF Stopping, Undisturbed
    <3> QED
      BY <1>1, <3>1 DEF LeavesDone
  <2> QED
    BY <1>2, <2>1, <2>2
<1> QED
  BY <1>4, <1>5, <1>6, <1>7, <1>8, <1>10, <1>11 DEF IterInv

\* An iteration that ends is one more pair of a VU and a number.
LEMMA DidGrows ==
  ASSUME NEW t \in Task, index \in [Task -> Nat], completed \in Nat, Counted,
         completed' = completed + 1, index' = [index EXCEPT ![t] = @ + 1]
  PROVE  Counted'
<1>1. index'[t] = index[t] + 1 /\ \A u \in Task : u # t => index'[u] = index[u]
  OBVIOUS
<1>2. index[t] \in Nat /\ index[t] + 1 \in Nat
  OBVIOUS
<1>3. <<t, index[t] + 1>> \notin Did
  BY <1>2 DEF Did
<1>4. Did' = Did \cup {<<t, index[t] + 1>>}
  <2>1. \A u \in Task, k \in Nat :
          k \in 1..index'[u] <=> k \in 1..index[u] \/ (u = t /\ k = index[t] + 1)
    BY <1>1, <1>2
  <2>2. \A x \in Task \X Nat : x \in Did' <=> x \in Did \cup {<<t, index[t] + 1>>}
    BY <2>1 DEF Did
  <2>3. Did' \subseteq Task \X Nat /\ Did \subseteq Task \X Nat /\ <<t, index[t] + 1>> \in Task \X Nat
    BY <1>2 DEF Did
  <2> QED
    BY <2>2, <2>3
<1> QED
  BY <1>3, <1>4, FS_AddElement DEF Counted

\* ... and the end of an iteration.
LEMMA EndKeeps ==
  ASSUME IterInv, NEW t \in Task, EndIteration(t)
  PROVE  IterInv'
<1>0. /\ PoolTypeOK /\ pc \in [Task -> TaskState] /\ Undisturbed
      /\ claimed \in Nat /\ completed \in Nat /\ Budget \in Nat /\ index \in [Task -> Nat]
      /\ mode \in Executor
  BY BudgetNat DEF IterInv, TypeOK, PoolTypeOK
<1>1. /\ pc[t] = "iter" /\ completed' = completed + 1 /\ index' = [index EXCEPT ![t] = @ + 1]
      /\ stop' \in {stop, TRUE}
      /\ UNCHANGED <<seen, deaths, active, force, rdTarget, rdRemaining, spawned, paused, ctl, aborted>>
      /\ UNCHANGED <<mode, claimed>>
  BY DEF EndIteration, rdVars, ctlVars
<1>2. PICK s \in {"top", "exit"} :
        Goto(t, s) /\ (s = "exit" <=> mode = "per-vu" /\ index[t] + 1 >= Budget)
  BY DEF EndIteration, AfterIteration
<1>3. s \in TaskState /\ pc'[t] = s /\ \A u \in Task : u # t => pc'[u] = pc[u]
  BY <1>0, <1>2, GotoMoves DEF TaskState
<1>31. index[t] \in Nat /\ index'[t] = index[t] + 1 /\ \A u \in Task : u # t => index'[u] = index[u]
  BY <1>0, <1>1
<1>4. TypeOK'
  <2>1. pc' \in [Task -> TaskState]
    BY <1>0, <1>2, <1>3 DEF Goto
  <2>2. completed' \in Nat /\ index' \in [Task -> Nat]
    BY <1>0, <1>1
  <2>3. stop' \in BOOLEAN
    BY <1>0, <1>1 DEF PoolTypeOK
  <2> QED
    BY <1>1, <2>1, <2>2, <2>3 DEF IterInv, TypeOK, PoolTypeOK
<1>5. Undisturbed'
  <2>1. stop => stop'
    BY <1>1
  <2> QED
    BY <1>0, <1>1, <1>2, <1>3, <2>1 DEF Undisturbed, Quiet
<1>6. Handles'
  BY <1>0, <1>1, <1>2, <1>3, HandlesKept DEF IterInv
<1>7. Counted'
  BY <1>0, <1>1, DidGrows DEF IterInv
<1>8. BelowBudget'
  <2>1. ASSUME mode = "per-vu", Budget > 0
        PROVE  \A u \in Task : index'[u] <= Budget /\ (pc'[u] \notin Over => index'[u] < Budget)
    <3>1. \A u \in Task : index[u] <= Budget /\ (pc[u] \notin Over => index[u] < Budget)
      BY <2>1 DEF IterInv, BelowBudget
    <3>2. index[t] < Budget
      BY <1>1, <3>1 DEF Over
    <3>3. index'[t] <= Budget /\ (s # "exit" => index'[t] < Budget)
      BY <2>1, <1>0, <1>2, <1>31, <3>2
    <3> QED
      BY <1>2, <1>3, <1>31, <3>1, <3>3 DEF Over
  <2>2. \A u \in Task : pc'[u] = "free" => index'[u] = 0
    BY <1>2, <1>3, <1>31 DEF IterInv, BelowBudget
  <2> QED
    BY <1>1, <2>1, <2>2 DEF BelowBudget, Budget
<1>9. /\ Cardinality(In(pc, {"iter"})) \in Nat
      /\ Cardinality(In(pc', {"iter"})) = Cardinality(In(pc, {"iter"})) - 1
  BY <1>0, <1>1, <1>2, RunningMoves
<1>91. completed' + Cardinality(In(pc', {"iter"})) = completed + Cardinality(In(pc, {"iter"}))
  BY <1>0, <1>1, <1>9
<1>10. Claimed'
  BY <1>1, <1>91 DEF IterInv, Claimed, Budget
<1>11. LeavesDone'
  <2> SUFFICES ASSUME ~stop', deaths = 0, Budget > 0
               PROVE  /\ mode = "shared" =>
                           /\ completed' + Cardinality(In(pc', {"iter"})) = claimed
                           /\ \A u \in Task : pc'[u] \in Over => claimed = Budget
                      /\ mode = "per-vu" => \A u \in Task : pc'[u] \in Over => index'[u] = Budget
    BY <1>1 DEF LeavesDone, Budget
  <2>1. ~stop
    BY <1>1
  <2>2. CASE mode = "shared"
    <3>1. \A u \in Task : pc'[u] \in Over => pc[u] \in Over
      BY <2>2, <1>2, <1>3 DEF Over
    <3> QED
      BY <2>1, <2>2, <3>1, <1>91 DEF IterInv, LeavesDone
  <2>3. CASE mode = "per-vu"
    <3>1. s = "exit" => index'[t] = Budget
      <4>1. index[t] < Budget
        BY <1>1, <2>3 DEF IterInv, BelowBudget, Over
      <4> QED
        BY <1>0, <1>2, <1>31, <4>1
    <3>2. \A u \in Task : u # t /\ pc'[u] \in Over => index'[u] = Budget
      BY <1>3, <1>31, <2>1, <2>3 DEF IterInv, LeavesDone
    <3> QED
      BY <2>3, <1>2, <1>3, <3>1, <3>2 DEF Over
  <2> QED
    BY <2>2, <2>3, <1>0 DEF Executor
<1> QED
  BY <1>4, <1>5, <1>6, <1>7, <1>8, <1>10, <1>11 DEF IterInv

-----------------------------------------------------------------------------
(* The executor and the requests from outside.                             *)

\* The spawn fills free slots, as many as there are VUs.
LEMMA SpawnKeeps ==
  ASSUME IterInv, SpawnAll
  PROVE  IterInv'
<1>0. /\ PoolTypeOK /\ pc \in [Task -> TaskState] /\ Undisturbed
      /\ claimed \in Nat /\ completed \in Nat /\ Budget \in Nat /\ index \in [Task -> Nat]
  BY BudgetNat DEF IterInv, TypeOK, PoolTypeOK
<1>1. /\ ctl = "start" /\ ctl' = "race"
      /\ UNCHANGED <<seen, deaths, active, stop, force, rdTarget, rdRemaining, spawned, paused, aborted>>
      /\ UNCHANGED <<mode, claimed, completed, index>>
  BY DEF SpawnAll, flags, rdVars, iterVars
<1>2. PICK T \in SUBSET Task :
        Cardinality(T) = Vus /\ pc' = [t \in Task |-> IF t \in T THEN "spawned" ELSE pc[t]]
  BY DEF SpawnAll
<1>3. \A t \in Task : pc[t] = "free"
  <2>1. IsFiniteSet(In(pc, TaskState \ {"free"})) /\ Cardinality(In(pc, TaskState \ {"free"})) = 0
    BY <1>1, InFinite DEF IterInv, Handles
  <2>2. In(pc, TaskState \ {"free"}) = {}
    BY <2>1, FS_EmptySet
  <2> QED
    BY <2>2, <1>0 DEF In
<1>4. pc' \in [Task -> TaskState] /\ \A t \in Task : pc'[t] = IF t \in T THEN "spawned" ELSE "free"
  BY <1>0, <1>2, <1>3 DEF TaskState
<1>5. TypeOK'
  BY <1>1, <1>4 DEF IterInv, TypeOK, PoolTypeOK
<1>6. Undisturbed'
  BY <1>0, <1>1, <1>4 DEF Undisturbed, Quiet
<1>7. Handles'
  <2>1. In(pc', TaskState \ {"free"}) = T
    BY <1>4 DEF In, TaskState
  <2> QED
    BY <2>1, <1>1, <1>2 DEF Handles
<1>8. Counted'
  BY <1>1 DEF IterInv, Counted, Did
<1>9. BelowBudget'
  <2>1. \A t \in Task : index[t] = 0
    BY <1>3 DEF IterInv, BelowBudget
  <2> QED
    BY <1>0, <1>1, <2>1 DEF BelowBudget, Budget
<1>10. In(pc', {"iter"}) = In(pc, {"iter"})
  BY <1>3, <1>4 DEF In
<1>11. \A t \in Task : pc'[t] \notin Over
  BY <1>4 DEF Over
<1>12. LeavesDone'
  BY <1>1, <1>10, <1>11 DEF IterInv, LeavesDone, Budget
<1>13. Claimed'
  BY <1>1, <1>10 DEF IterInv, Claimed, Budget
<1> QED
  BY <1>5, <1>6, <1>7, <1>8, <1>9, <1>12, <1>13 DEF IterInv

\* What moves no VU and takes no stop back keeps the invariant if it keeps the
\* types and what the executor's place says.
LEMMA QuietStepKeeps ==
  ASSUME IterInv, TypeOK', Undisturbed', UNCHANGED <<pc, deaths, iterVars>>,
         stop => stop', (ctl # "start" /\ ctl' # "start") \/ ctl' = ctl
  PROVE  IterInv'
<1>1. UNCHANGED <<mode, claimed, completed, index>>
  BY DEF iterVars
<1>2. Handles' /\ Counted' /\ BelowBudget'
  BY <1>1 DEF IterInv, Handles, Counted, Did, BelowBudget, Budget, In
<1>3. LeavesDone' /\ Claimed'
  BY <1>1 DEF IterInv, LeavesDone, Claimed, Budget, In
<1> QED
  BY <1>2, <1>3 DEF IterInv

\* The race of the join with maxDuration, the tail and the requests.
LEMMA ExecutorKeeps ==
  ASSUME IterInv, AllJoined \/ MaxDurationReached \/ Ending \/ External
  PROVE  IterInv'
<1>0. TypeOK /\ PoolTypeOK /\ Undisturbed
  BY DEF IterInv, TypeOK
<1> USE DEF vuVars, flags, rdVars, ctlVars
<1>1. CASE AllJoined
  <2>1. TypeOK' /\ Undisturbed'
    BY <1>0, <1>1 DEF AllJoined, TypeOK, PoolTypeOK, Undisturbed, iterVars, Quiet
  <2> QED
    BY <1>1, <2>1, QuietStepKeeps DEF AllJoined
<1>2. CASE MaxDurationReached
  <2>1. TypeOK' /\ Undisturbed'
    BY <1>0, <1>2 DEF MaxDurationReached, TypeOK, PoolTypeOK, Undisturbed, iterVars, Quiet
  <2> QED
    BY <1>2, <2>1, QuietStepKeeps DEF MaxDurationReached
<1>3. CASE Ending
  <2>1. /\ UNCHANGED <<pc, seen, deaths, active, rdTarget, rdRemaining, spawned, paused, iterVars>>
        /\ ctl \in {"stopping", "drain", "join"} /\ ctl' \in {"drain", "join", "done"}
        /\ stop' /\ stop' \in BOOLEAN /\ force' \in BOOLEAN /\ aborted' \in BOOLEAN
    BY <1>0, <1>3 DEF Ending, RunTail, SoftStop, Drained, GraceExpired, HandlesJoined,
                      JoinBoundExpired, Undisturbed, PoolTypeOK
  <2>2. TypeOK' /\ Undisturbed'
    BY <1>0, <2>1 DEF TypeOK, PoolTypeOK, Undisturbed, iterVars
  <2> QED
    BY <2>1, <2>2, QuietStepKeeps
<1>4. CASE External
  <2>1. /\ UNCHANGED <<pc, seen, deaths, active, rdTarget, rdRemaining, spawned, ctl, aborted, iterVars>>
        /\ stop => stop'
        /\ force' => force \/ stop
        /\ stop' \in BOOLEAN /\ force' \in BOOLEAN /\ paused' \in BOOLEAN
    <3>1. UNCHANGED iterVars /\ (RequestStop \/ RequestForceStop \/ TogglePaused)
      BY <1>4 DEF External
    <3>2. CASE RequestStop BY <1>0, <3>1, <3>2 DEF RequestStop, PoolTypeOK
    <3>3. CASE RequestForceStop BY <1>0, <3>1, <3>3 DEF RequestForceStop, PoolTypeOK
    <3>4. CASE TogglePaused BY <1>0, <3>1, <3>4 DEF TogglePaused, PoolTypeOK
    <3> QED BY <3>1, <3>2, <3>3, <3>4
  <2>2. TypeOK' /\ Undisturbed'
    BY <1>0, <2>1 DEF TypeOK, PoolTypeOK, Undisturbed, iterVars, Quiet
  <2> QED
    BY <2>1, <2>2, QuietStepKeeps
<1> QED
  BY <1>1, <1>2, <1>3, <1>4

-----------------------------------------------------------------------------
(* The theorems.                                                           *)

\* The run begins with no VU, no claim and nothing done.
LEMMA IterInitially == Init => IterInv
<1> SUFFICES ASSUME Init PROVE IterInv
  OBVIOUS
<1>0. PoolTypeOK /\ \A t \in Task : pc[t] = "free"
  BY PoolInitOK DEF Init, PoolInit
<1>1. TypeOK
  BY <1>0, IterationAssumption DEF Init, TypeOK
<1>2. Undisturbed
  BY <1>0 DEF Init, PoolInit, Undisturbed
<1>3. In(pc, TaskState \ {"free"}) = {} /\ In(pc, {"iter"}) = {} /\ Cardinality({}) = 0
  BY <1>0, FS_EmptySet DEF In
<1>4. Handles
  BY <1>3 DEF Handles, Init
<1>5. Counted
  <2>1. Did = {}
    BY DEF Did, Init
  <2> QED
    BY <2>1, FS_EmptySet DEF Counted, Init
<1>6. BelowBudget
  BY BudgetNat DEF BelowBudget, Init
<1>7. LeavesDone /\ Claimed
  <2>1. claimed = 0 /\ completed = 0 /\ \A t \in Task : pc[t] \notin Over
    BY <1>0 DEF Init, Over
  <2> QED
    BY <1>3, <2>1, BudgetNat DEF LeavesDone, Claimed
<1> QED
  BY <1>1, <1>2, <1>4, <1>5, <1>6, <1>7 DEF IterInv

\* Every step keeps the invariant.
LEMMA IterInductive == IterInv /\ [Next]_vars => IterInv'
<1> SUFFICES ASSUME IterInv, [Next]_vars PROVE IterInv'
  OBVIOUS
<1>1. CASE SpawnAll BY <1>1, SpawnKeeps
<1>2. CASE AllJoined \/ MaxDurationReached \/ Ending \/ External BY <1>2, ExecutorKeeps
<1>3. ASSUME NEW t \in Task, Vu(t) PROVE IterInv'
  BY <1>3, StepKeeps, ClaimKeeps, PassKeeps, EndKeeps DEF Vu
<1>4. CASE UNCHANGED vars
  <2>1. UNCHANGED <<pc, seen, deaths, active, stop, force, rdTarget, rdRemaining, spawned, paused, ctl, aborted, iterVars>>
    BY <1>4 DEF vars, poolVars, vuVars, flags, rdVars, ctlVars
  <2>2. TypeOK' /\ Undisturbed'
    BY <2>1 DEF IterInv, TypeOK, PoolTypeOK, Undisturbed, iterVars, Quiet
  <2> QED
    BY <2>1, <2>2, QuietStepKeeps
<1> QED
  BY <1>1, <1>2, <1>3, <1>4 DEF Next

\* No iteration is started beyond the budget, shared or of one VU, however the
\* VUs race for the last one, stop, panic or are aborted.
THEOREM BudgetNeverOverrun == Spec => []NoOverrun
<1>1. IterInv => NoOverrun
  <2> SUFFICES ASSUME IterInv PROVE NoOverrun
    OBVIOUS
  <2>1. Running = In(pc, {"iter"})
    BY DEF Running, In
  <2>2. ASSUME mode = "per-vu", Budget > 0, NEW t \in Task
        PROVE  index[t] + (IF t \in Running THEN 1 ELSE 0) <= Budget
    <3>1. index[t] \in Nat /\ Budget \in Nat /\ index[t] <= Budget
      BY <2>2, BudgetNat DEF IterInv, TypeOK, BelowBudget
    <3>2. t \in Running => index[t] < Budget
      BY <2>2 DEF IterInv, BelowBudget, Running, Over
    <3> QED
      BY <3>1, <3>2
  <2> QED
    BY <2>1, <2>2 DEF NoOverrun, IterInv, Claimed
<1> QED
  BY <1>1, IterInitially, IterInductive, PTL DEF Spec

\* A run that nothing stopped and in which nobody died returns with all of its
\* work done: the shared budget, or the budget of each VU.
THEOREM AllWorkDone == Spec => []WorkIsDone
<1>1. IterInv => WorkIsDone
  <2> SUFFICES ASSUME IterInv, ctl = "done", ~stop, deaths = 0, Budget > 0
               PROVE  completed = Work
    BY DEF WorkIsDone
  <2>0. /\ pc \in [Task -> TaskState] /\ index \in [Task -> Nat] /\ mode \in Executor
        /\ completed \in Nat /\ claimed \in Nat /\ Budget \in Nat /\ Vus \in Nat
    BY BudgetNat, IterationAssumption DEF IterInv, TypeOK, PoolTypeOK
  <2> DEFINE F == In(pc, TaskState \ {"free"})
  <2>1. IsFiniteSet(F) /\ Cardinality(F) = Vus
    BY InFinite DEF IterInv, Handles
  <2>2. \A t \in Task : pc[t] = "free" \/ pc[t] = "finished"
    BY DEF IterInv, Undisturbed, Quiet
  <2>3. F \subseteq Task /\ \A t \in Task : t \in F <=> pc[t] = "finished"
    BY <2>2, <2>0 DEF In, TaskState
  <2>4. CASE mode = "per-vu"
    <3>1. \A t \in Task : index[t] = IF t \in F THEN Budget ELSE 0
      BY <2>2, <2>3, <2>4 DEF IterInv, LeavesDone, BelowBudget, Over
    <3>2. Did = F \X (1..Budget)
      <4>1. \A t \in Task, k \in Nat : k \in 1..index[t] <=> t \in F /\ k \in 1..Budget
        BY <3>1, <2>0
      <4>2. \A x \in Task \X Nat : x \in Did <=> x \in F \X (1..Budget)
        BY <4>1 DEF Did
      <4>3. Did \subseteq Task \X Nat /\ F \X (1..Budget) \subseteq Task \X Nat
        BY <2>3, <2>0 DEF Did
      <4> QED
        BY <4>2, <4>3
    <3>3. IsFiniteSet(1..Budget) /\ Cardinality(1..Budget) = Budget
      BY <2>0, FS_Interval
    <3>4. Cardinality(Did) = Vus * Budget
      BY <2>1, <3>2, <3>3, FS_Product
    <3> QED
      BY <2>4, <3>4 DEF IterInv, Counted, Work
  <2>5. CASE mode = "shared"
    <3>1. In(pc, {"iter"}) = {}
      BY <2>2 DEF In
    <3>2. completed = claimed
      BY <3>1, <2>0, <2>5, FS_EmptySet DEF IterInv, LeavesDone
    <3>3. CASE Vus = 0
      <4>1. F = {}
        BY <2>1, <3>3, FS_EmptySet
      <4>2. \A t \in Task : index[t] = 0
        BY <4>1, <2>2, <2>3 DEF IterInv, BelowBudget
      <4>3. Did = {}
        BY <4>2 DEF Did
      <4> QED
        BY <4>3, <3>3, <2>5, FS_EmptySet DEF IterInv, Counted, Work
    <3>4. CASE Vus # 0
      <4>1. F # {}
        BY <2>1, <3>4, FS_EmptySet
      <4>2. PICK t \in Task : pc[t] = "finished"
        BY <4>1, <2>3
      <4>3. claimed = Budget
        BY <4>2, <2>5 DEF IterInv, LeavesDone, Over
      <4> QED
        BY <3>2, <3>4, <4>3, <2>5 DEF Work
    <3> QED
      BY <3>3, <3>4
  <2> QED
    BY <2>4, <2>5, <2>0 DEF Executor
<1> QED
  BY <1>1, IterInitially, IterInductive, PTL DEF Spec
=============================================================================
