------------------------- MODULE ArrivalRateProofs -------------------------
(***************************************************************************)
(* Proofs about ArrivalRate, for every number of tasks, bucket size and    *)
(* arrival curve: the bucket's bound, the idle count, and the refinement   *)
(* of ArrivalLedger.                                                       *)
(***************************************************************************)
EXTENDS ArrivalRate, VuPoolProofs

\* While the ticker is between its load of the token count and its fetch_add,
\* VUs only take tokens, so what it loaded is never too small.
Loaded ==
  ctl = "add" => 0 < toAdd /\ toAdd <= MaxArrivals - due /\ tokens <= loaded

IInv == TypeOK /\ BucketBounded /\ Loaded

-----------------------------------------------------------------------------

\* The initial states satisfy the inductive invariant.
LEMMA InitOK == Init => IInv
<1> SUFFICES ASSUME Init PROVE IInv
  OBVIOUS
<1>1. PoolTypeOK
  BY PoolInitOK DEF Init
<1>2. held \in [Task -> Nat]
  BY DEF Init
<1>3. ctl \in CtlState
  BY DEF Init, CtlState
<1> QED
  BY <1>1, <1>2, <1>3, ArrivalAssumption DEF Init, IInv, TypeOK, BucketBounded, Loaded

\* The steps of a VU that every executor has.
CommonStep(t) ==
  \/ StartVu(t) \/ InitFail(t) \/ LoopTop(t) \/ ReadRampDownTarget(t)
  \/ CompleteIteration(t) \/ Panic(t) \/ DropGuard(t) \/ DropLease(t) \/ FinishTask(t)

\* The VU steps every executor shares touch neither the bucket nor the ticker.
LEMMA CommonStepOK ==
  ASSUME NEW t \in Task, PoolTypeOK, CommonStep(t)
  PROVE  PoolTypeOK' /\ ctl' = ctl
<1>1. PoolTypeOK'
  <2>1. VuStep(t) \/ CompleteIteration(t)
    BY DEF CommonStep, VuStep
  <2>2. "iter" \in TaskState
    BY DEF TaskState
  <2> QED
    BY <2>1, <2>2, VuStepType, LoopStepType
<1>2. ctl' = ctl
  BY DEF CommonStep, StartVu, InitFail, LoopTop, ReadRampDownTarget, CompleteIteration, Panic,
     DropGuard, DropLease, FinishTask, ctlVars
<1> QED
  BY <1>1, <1>2

\* An aborted VU, waiting for a token or not, preserves the invariant.
LEMMA AbortOK ==
  ASSUME NEW t \in Task, PoolTypeOK, AbortTask(t)
  PROVE  PoolTypeOK' /\ ctl' = ctl
BY VuStepType DEF VuStep, AbortTask, ctlVars

\* A step of a VU keeps the types, and takes at most tokens away.
LEMMA VuOK ==
  ASSUME NEW t \in Task, IInv, Vu(t)
  PROVE  IInv'
<1>0. TypeOK /\ PoolTypeOK /\ pc \in [Task -> TaskState] /\ MaxVus \in Nat
  BY ArrivalAssumption DEF IInv, TypeOK, PoolTypeOK
<1> SUFFICES /\ PoolTypeOK' /\ ctl' = ctl
             /\ tokens' \in Nat /\ tokens' <= tokens
             /\ idle' \in Nat /\ held' \in [Task -> Nat] /\ started' \in Nat
             /\ UNCHANGED <<dropped, reported, ticker>>
  BY <1>0 DEF IInv, TypeOK, BucketBounded, Loaded, ticker
<1> USE DEF TypeOK, ticker, tally
<1>1. CASE BeginWait(t)
  <2>1. PoolTypeOK'
    BY <1>0, <1>1, LoopStepType DEF BeginWait, TaskState
  <2> QED
    BY <1>0, <1>1, <2>1 DEF BeginWait, PassGate, ctlVars
<1>2. CASE StopWaiting(t)
  BY <1>0, <1>2 DEF StopWaiting, Goto, PoolTypeOK, TaskState, SatDec, flags, rdVars, ctlVars
<1>3. CASE LoadTokens(t)
  BY <1>0, <1>3 DEF LoadTokens, PoolTypeOK, poolVars, vuVars, flags, rdVars, ctlVars
<1>4. CASE TakeToken(t)
  <2>1. held[t] \in Nat
    BY <1>0
  <2>2. CASE tokens = held[t]
    BY <1>0, <1>4, <2>1, <2>2 DEF TakeToken, Goto, PoolTypeOK, TaskState, SatDec, flags, rdVars, ctlVars
  <2>3. CASE tokens # held[t]
    BY <1>0, <1>4, <2>3 DEF TakeToken, PoolTypeOK, flags, rdVars, ctlVars
  <2> QED
    BY <2>2, <2>3
<1>5. CASE AbortWaiting(t)
  BY <1>0, <1>5, AbortOK DEF AbortWaiting, SatDec
<1>6. CASE CommonStep(t) /\ UNCHANGED arrVars
  BY <1>0, <1>6, CommonStepOK DEF arrVars, bucket
<1> QED
  BY <1>1, <1>2, <1>3, <1>4, <1>5, <1>6 DEF Vu, CommonStep

\* Spawning and respawning change only what a slot holds.
LEMMA SpawnType ==
  ASSUME pc \in [Task -> TaskState],
         (\E n \in Nat : pc' \in Spawned(pc, n)) \/ pc' = Respawned(pc)
  PROVE  pc' \in [Task -> TaskState]
BY DEF Spawned, Respawned, TaskState

\* grow_arrival_pool spawns a natural number of VUs.
LEMMA GrowByType ==
  ASSUME TypeOK
  PROVE  GrowBy \in Nat
BY ArrivalAssumption DEF TypeOK, GrowBy, Lower

\* A step of the ticker keeps the types and the bound of the bucket.
LEMMA TickerOK ==
  ASSUME IInv, Ticker
  PROVE  IInv'
<1>0. /\ TypeOK /\ PoolTypeOK /\ pc \in [Task -> TaskState]
      /\ MaxVus \in Nat /\ MaxArrivals \in Nat /\ PreAlloc \in Nat
  BY ArrivalAssumption DEF IInv, TypeOK, PoolTypeOK
<1>1. CASE PreSpawn
  <2>1. AtLeastOne(PreAlloc) \in Nat
    BY <1>0 DEF AtLeastOne
  <2>2. pc' \in [Task -> TaskState]
    BY <1>0, <1>1, <2>1, SpawnType DEF PreSpawn
  <2> QED
    BY <1>0, <1>1, <2>1, <2>2 DEF PreSpawn, IInv, TypeOK, PoolTypeOK, BucketBounded, Loaded, CtlState,
       TickState, flags, rdVars, bucket, tally
<1>2. CASE LeaveTicks \/ NothingToRun
  BY <1>0, <1>2 DEF LeaveTicks, NothingToRun, IInv, TypeOK, PoolTypeOK, BucketBounded, Loaded, CtlState, TickState,
     vuVars, flags, rdVars, arrVars, bucket, ticker, tally
<1>3. CASE Tick
  BY <1>0, <1>3 DEF Tick, IInv, TypeOK, PoolTypeOK, BucketBounded, Loaded, CtlState, TickState,
     vuVars, flags, rdVars, bucket, tally
<1>4. CASE AddTokens
  BY <1>0, <1>4 DEF AddTokens, Lower, SatSub, IInv, TypeOK, PoolTypeOK, BucketBounded, Loaded,
     CtlState, TickState, vuVars, flags, rdVars, tally
<1>5. CASE Grow
  <2>1. GrowBy \in Nat
    BY <1>0, GrowByType
  <2>2. pc' \in [Task -> TaskState]
    BY <1>0, <1>5, <2>1, SpawnType DEF Grow
  <2> QED
    BY <1>0, <1>5, <2>1, <2>2 DEF Grow, IInv, TypeOK, PoolTypeOK, BucketBounded, Loaded, CtlState,
       TickState, flags, rdVars, bucket, tally
<1>6. CASE ReapTick
  <2>1. pc' = pc \/ pc' = Respawned(pc)
    BY <1>6 DEF ReapTick
  <2>2. pc' \in [Task -> TaskState]
    BY <1>0, <2>1, SpawnType
  <2> QED
    BY <1>0, <1>6, <2>2 DEF ReapTick, IInv, TypeOK, PoolTypeOK, BucketBounded, Loaded, CtlState,
       TickState, flags, rdVars, arrVars, bucket, ticker, tally
<1>7. CASE LoadQueued
  BY <1>0, <1>7 DEF LoadQueued, IInv, TypeOK, PoolTypeOK, BucketBounded, Loaded, CtlState, TickState,
     vuVars, flags, rdVars, bucket, tally
<1> QED
  BY <1>1, <1>2, <1>3, <1>4, <1>5, <1>6, <1>7 DEF Ticker

\* Every step of the executor, its VUs and its sampler preserves the invariant.
LEMMA NextOK == IInv /\ [Next]_vars => IInv'
<1> SUFFICES ASSUME IInv, [Next]_vars PROVE IInv'
  OBVIOUS
<1>0. TypeOK /\ PoolTypeOK
  BY DEF IInv, TypeOK
<1>1. CASE Ticker
  BY <1>1, TickerOK
<1>2. CASE Ending
  BY <1>0, <1>2 DEF Ending, RunTail, SoftStop, Drained, GraceExpired, HandlesJoined, JoinBoundExpired,
     IInv, TypeOK, PoolTypeOK, BucketBounded, Loaded, CtlState, vuVars, flags, rdVars, arrVars,
     bucket, ticker, tally
<1>3. CASE External
  BY <1>0, <1>3 DEF External, RequestStop, RequestForceStop, TogglePaused, IInv, TypeOK, PoolTypeOK,
     BucketBounded, Loaded, vuVars, flags, rdVars, ctlVars, arrVars, bucket, ticker, tally
<1>4. CASE SampleDropped
  BY <1>0, <1>4 DEF SampleDropped, IInv, TypeOK, PoolTypeOK, BucketBounded, Loaded, poolVars, vuVars,
     flags, rdVars, ctlVars, ticker
<1>5. CASE Flush
  BY <1>0, <1>5 DEF Flush, IInv, TypeOK, PoolTypeOK, BucketBounded, Loaded, CtlState, vuVars, flags,
     rdVars, ticker
<1>6. ASSUME NEW t \in Task, Vu(t)
      PROVE  IInv'
  BY <1>6, VuOK
<1>7. CASE UNCHANGED vars
  BY <1>0, <1>7 DEF vars, IInv, TypeOK, PoolTypeOK, BucketBounded, Loaded, poolVars, vuVars, flags,
     rdVars, ctlVars, arrVars, bucket, ticker, tally
<1> QED
  BY <1>1, <1>2, <1>3, <1>4, <1>5, <1>6, <1>7 DEF Next

\* The invariant holds in every reachable state.
LEMMA Inductive == Spec => []IInv
BY InitOK, NextOK, PTL DEF Spec

\* Type correctness: no counter of the ticker, the bucket or the pool leaves its
\* type.
THEOREM TypeCorrect == Spec => []TypeOK
BY Inductive, PTL DEF IInv

\* The bucket never holds more than max_vus tokens, for every arrival curve and
\* every interleaving of the ticker's load and fetch_add with VUs taking tokens.
THEOREM BucketCapped == Spec => []BucketBounded
BY Inductive, PTL DEF IInv

-----------------------------------------------------------------------------
(* The refinement of ArrivalLedger.                                        *)

\* A step of a VU starts a queued arrival or leaves the ledger alone.
LEMMA VuLedger ==
  ASSUME NEW t \in Task, IInv, Vu(t)
  PROVE  Ledger!Start \/ UNCHANGED Ledger!ledger
<1> USE DEF Ledger!ledger, ticker, tally
<1>1. CASE BeginWait(t) BY <1>1 DEF BeginWait
<1>2. CASE StopWaiting(t) BY <1>2 DEF StopWaiting
<1>3. CASE LoadTokens(t) BY <1>3 DEF LoadTokens
<1>4. CASE TakeToken(t) /\ tokens = held[t]
  BY <1>4 DEF TakeToken, Ledger!Start
<1>5. CASE TakeToken(t) /\ tokens # held[t]
  BY <1>5 DEF TakeToken
<1>6. CASE AbortWaiting(t) BY <1>6 DEF AbortWaiting
<1>7. CASE UNCHANGED arrVars BY <1>7 DEF arrVars, bucket
<1> QED
  BY <1>1, <1>2, <1>3, <1>4, <1>5, <1>6, <1>7 DEF Vu

\* The ticker's fetch_adds are one Arrive; its other steps change nothing.
LEMMA TickerLedger ==
  ASSUME IInv, IInv', Ticker
  PROVE  Ledger!Arrive \/ UNCHANGED Ledger!ledger
<1> USE DEF Ledger!ledger, ticker, tally, bucket
<1>1. CASE AddTokens
  <2>0. /\ tokens \in Nat /\ dropped \in Nat /\ due \in Nat /\ toAdd \in Nat /\ loaded \in Nat
        /\ MaxVus \in Nat /\ toAdd > 0 /\ tokens' \in Nat /\ tokens' <= MaxVus
    BY <1>1, ArrivalAssumption DEF IInv, TypeOK, BucketBounded, Loaded, AddTokens
  <2>1. /\ due' = due + toAdd
        /\ tokens' = tokens + Lower(toAdd, SatSub(MaxVus, loaded))
        /\ dropped' = dropped + SatSub(toAdd, SatSub(MaxVus, loaded))
        /\ UNCHANGED <<started, reported>>
    BY <1>1 DEF AddTokens
  <2>2. /\ Lower(toAdd, SatSub(MaxVus, loaded)) \in Nat
        /\ SatSub(toAdd, SatSub(MaxVus, loaded)) \in Nat
        /\ Lower(toAdd, SatSub(MaxVus, loaded)) + SatSub(toAdd, SatSub(MaxVus, loaded)) = toAdd
    BY <2>0 DEF Lower, SatSub
  <2> QED
    BY <2>0, <2>1, <2>2 DEF Ledger!Arrive
<1>2. CASE PreSpawn \/ NothingToRun \/ LeaveTicks \/ Tick \/ LoadQueued \/ Grow \/ ReapTick
  BY <1>2 DEF PreSpawn, NothingToRun, LeaveTicks, Tick, LoadQueued, Grow, ReapTick, arrVars
<1> QED
  BY <1>1, <1>2 DEF Ticker

\* The arrival executors implement the ledger: every arrival that falls due goes
\* into the bucket or is dropped, each token starts one iteration, and each drop
\* is reported once, whatever the sampler, the flush and the VUs interleave.
THEOREM ImplementsLedger == Spec => LedgerSpec
<1>1. Init => Ledger!Init
  BY DEF Init, Ledger!Init
<1>2. IInv /\ IInv' /\ [Next]_vars => [Ledger!Next]_(Ledger!ledger)
  <2> SUFFICES ASSUME IInv, IInv', [Next]_vars
               PROVE  Ledger!Next \/ UNCHANGED Ledger!ledger
    OBVIOUS
  <2>1. CASE Ticker
    BY <2>1, TickerLedger DEF Ledger!Next
  <2>2. CASE Ending \/ External \/ UNCHANGED vars
    BY <2>2 DEF Ending, External, vars, arrVars, bucket, ticker, tally, Ledger!ledger
  <2>3. CASE SampleDropped \/ Flush
    BY <2>3 DEF SampleDropped, Flush, ticker, Ledger!Next, Ledger!Report
  <2>4. ASSUME NEW t \in Task, Vu(t)
        PROVE  Ledger!Next \/ UNCHANGED Ledger!ledger
    BY <2>4, VuLedger DEF Ledger!Next
  <2> QED
    BY <2>1, <2>2, <2>3, <2>4 DEF Next
<1> QED
  BY <1>1, <1>2, Inductive, PTL DEF Spec, LedgerSpec, Ledger!Spec

-----------------------------------------------------------------------------
(* The idle count.                                                         *)

\* The waiting VUs, in the form the counting lemmas of VuPoolProofs use.
LEMMA WaitingIn == Waiting = In(pc, {"wait"}) /\ Waiting' = In(pc', {"wait"})
BY DEF Waiting, In

\* How a move of one task changes the number of VUs that wait.
LEMMA WaitingStep ==
  ASSUME NEW t \in Task, NEW s \in TaskState, pc \in [Task -> TaskState], Goto(t, s)
  PROVE  /\ (pc[t] = "wait" <=> s = "wait") => Waiting' = Waiting
         /\ pc[t] = "wait" /\ s # "wait" =>
              Cardinality(Waiting) > 0 /\ Cardinality(Waiting') = Cardinality(Waiting) - 1
         /\ pc[t] # "wait" /\ s = "wait" => Cardinality(Waiting') = Cardinality(Waiting) + 1
<1>1. pc'[t] = s /\ \A u \in Task : u # t => pc'[u] = pc[u]
  BY GotoMoves
<1> QED
  BY <1>1, WaitingIn, InStep

\* Every step of a VU moves idle_vus with the set of waiting VUs.
LEMMA VuIdle ==
  ASSUME NEW t \in Task, TypeOK, IdleIsWaiting, Vu(t)
  PROVE  IdleIsWaiting'
<1>0. pc \in [Task -> TaskState] /\ Cardinality(Waiting) \in Nat
  BY WaitingIn, InFinite DEF TypeOK, PoolTypeOK
<1> USE DEF TaskState
<1>1. CASE BeginWait(t) /\ Stopping
  BY <1>0, <1>1, WaitingStep, GotoMoves DEF BeginWait, PassGate, IdleIsWaiting
<1>2. CASE BeginWait(t) /\ ~Stopping
  BY <1>0, <1>2, WaitingStep, GotoMoves DEF BeginWait, PassGate, IdleIsWaiting
<1>3. CASE StopWaiting(t)
  BY <1>0, <1>3, WaitingStep DEF StopWaiting, IdleIsWaiting, SatDec
<1>4. CASE LoadTokens(t)
  BY <1>4 DEF LoadTokens, IdleIsWaiting, Waiting, poolVars, vuVars
<1>5. CASE TakeToken(t) /\ tokens = held[t]
  BY <1>0, <1>5, WaitingStep DEF TakeToken, IdleIsWaiting, SatDec
<1>6. CASE TakeToken(t) /\ tokens # held[t]
  BY <1>6 DEF TakeToken, IdleIsWaiting, Waiting
<1>7. CASE AbortWaiting(t)
  <2>1. CASE pc[t] = "wait"
    BY <1>0, <1>7, <2>1, WaitingStep DEF AbortWaiting, AbortTask, IdleIsWaiting, SatDec
  <2>2. CASE pc[t] # "wait"
    BY <1>0, <1>7, <2>2, WaitingStep DEF AbortWaiting, AbortTask, IdleIsWaiting
  <2> QED
    BY <2>1, <2>2
<1>8. CASE CommonStep(t) /\ UNCHANGED arrVars
  <2>1. Waiting' = Waiting
    <3>1. CASE StartVu(t) BY <1>0, <3>1, WaitingStep DEF StartVu
    <3>2. CASE InitFail(t) BY <1>0, <3>2, WaitingStep DEF InitFail
    <3>3. CASE LoopTop(t) BY <1>0, <3>3, WaitingStep DEF LoopTop
    <3>4. CASE ReadRampDownTarget(t) BY <1>0, <3>4, WaitingStep DEF ReadRampDownTarget
    <3>5. CASE CompleteIteration(t) BY <1>0, <3>5, WaitingStep DEF CompleteIteration
    <3>6. CASE Panic(t) BY <1>0, <3>6, WaitingStep DEF Panic
    <3>7. CASE DropGuard(t) BY <1>0, <3>7, WaitingStep DEF DropGuard
    <3>8. CASE DropLease(t) BY <1>0, <3>8, WaitingStep DEF DropLease
    <3>9. CASE FinishTask(t) BY <1>0, <3>9, WaitingStep DEF FinishTask
    <3> QED
      BY <1>8, <3>1, <3>2, <3>3, <3>4, <3>5, <3>6, <3>7, <3>8, <3>9 DEF CommonStep
  <2> QED
    BY <1>8, <2>1 DEF IdleIsWaiting, arrVars, bucket
<1> QED
  BY <1>1, <1>2, <1>3, <1>4, <1>5, <1>6, <1>7, <1>8 DEF Vu, CommonStep

\* Spawning and respawning put no task into the wait and take none out.
LEMMA SpawnWaiting ==
  ASSUME pc \in [Task -> TaskState],
         (\E n \in Nat : pc' \in Spawned(pc, n)) \/ pc' = Respawned(pc) \/ pc' = pc
  PROVE  Waiting' = Waiting
<1>1. CASE \E n \in Nat : pc' \in Spawned(pc, n)
  <2>1. PICK T \in SUBSET {t \in Task : pc[t] = "free"} :
          pc' = [t \in Task |-> IF t \in T THEN "spawned" ELSE pc[t]]
    BY <1>1 DEF Spawned
  <2> QED
    BY <2>1 DEF Waiting
<1>2. CASE pc' = Respawned(pc)
  BY <1>2 DEF Respawned, Waiting
<1>3. CASE pc' = pc
  BY <1>3 DEF Waiting
<1> QED
  BY <1>1, <1>2, <1>3

\* idle_vus always equals the number of VUs waiting for a token: stops, aborts
\* and deaths never leave a count behind that would keep the pool from growing.
THEOREM IdleCounted == Spec => []IdleIsWaiting
<1>1. Init => IdleIsWaiting
  <2> SUFFICES ASSUME Init PROVE IdleIsWaiting
    OBVIOUS
  <2>1. Waiting = {}
    BY DEF Init, PoolInit, Waiting
  <2> QED
    BY <2>1, FS_EmptySet DEF Init, IdleIsWaiting
<1>2. IInv /\ IdleIsWaiting /\ [Next]_vars => IdleIsWaiting'
  <2> SUFFICES ASSUME IInv, IdleIsWaiting, [Next]_vars PROVE IdleIsWaiting'
    OBVIOUS
  <2>0. /\ TypeOK /\ pc \in [Task -> TaskState]
        /\ GrowBy \in Nat /\ AtLeastOne(PreAlloc) \in Nat
    BY ArrivalAssumption, GrowByType DEF IInv, TypeOK, PoolTypeOK, AtLeastOne
  <2>1. CASE PreSpawn \/ Grow \/ ReapTick
    <3>1. Waiting' = Waiting
      BY <2>0, <2>1, SpawnWaiting DEF PreSpawn, Grow, ReapTick
    <3> QED
      BY <2>1, <3>1 DEF PreSpawn, Grow, ReapTick, IdleIsWaiting, bucket, arrVars
  <2>2. CASE NothingToRun \/ LeaveTicks \/ Tick \/ AddTokens \/ LoadQueued
    BY <2>2 DEF NothingToRun, LeaveTicks, Tick, AddTokens, LoadQueued, IdleIsWaiting, Waiting, vuVars, arrVars, bucket
  <2>3. CASE Ending
    BY <2>3 DEF Ending, RunTail, SoftStop, Drained, GraceExpired, HandlesJoined, JoinBoundExpired,
       IdleIsWaiting, Waiting, vuVars, arrVars, bucket
  <2>4. CASE External \/ UNCHANGED vars
    BY <2>4 DEF External, RequestStop, RequestForceStop, TogglePaused, vars, poolVars, IdleIsWaiting,
       Waiting, vuVars, arrVars, bucket
  <2>5. CASE SampleDropped \/ Flush
    BY <2>5 DEF SampleDropped, Flush, IdleIsWaiting, Waiting, poolVars, vuVars
  <2>6. ASSUME NEW t \in Task, Vu(t)
        PROVE  IdleIsWaiting'
    BY <2>0, <2>6, VuIdle
  <2> QED
    BY <2>1, <2>2, <2>3, <2>4, <2>5, <2>6 DEF Next, Ticker
<1> QED
  BY <1>1, <1>2, Inductive, PTL DEF Spec

-----------------------------------------------------------------------------
(* The handles of the pool.                                                *)

\* Before the first spawn every slot is free; afterwards, until the run ends,
\* the executor holds as many handles as it counts VUs.
HandlesCounted ==
  /\ ctl = "start" => Handles = {} /\ cur = 0
  /\ PoolHeld

\* Handles, in the form the lemmas of VuPoolProofs use.
LEMMA HandlesHeld == Handles = Held(pc) /\ Handles' = Held(pc')
BY DEF Handles, Held

\* Spawned adds n handles.
LEMMA SpawnedHandles ==
  ASSUME NEW n \in Nat, pc' \in Spawned(pc, n)
  PROVE  Cardinality(Handles') = Cardinality(Handles) + n
<1>1. PICK T \in SUBSET {t \in Task : pc[t] = "free"} :
        Cardinality(T) = n /\ pc' = [t \in Task |-> IF t \in T THEN "spawned" ELSE pc[t]]
  BY DEF Spawned
<1> QED
  BY <1>1, HandlesHeld, SpawnAddsHeld

\* No step of a VU gives up a handle or moves the ticker.
LEMMA VuHandles ==
  ASSUME NEW t \in Task, TypeOK, Vu(t)
  PROVE  Handles' = Handles /\ ctl' = ctl /\ cur' = cur
<1>0. pc \in [Task -> TaskState] /\ PoolTypeOK
  BY DEF TypeOK, PoolTypeOK
<1>1. CASE BeginWait(t)
  BY <1>0, <1>1, VuKeepsHeld, HandlesHeld DEF BeginWait, PassGate, TaskState, ctlVars, ticker
<1>2. CASE StopWaiting(t)
  <2>1. Goto(t, "exit") /\ pc[t] # "free"
    BY <1>2 DEF StopWaiting
  <2>2. Handles' = Handles
    BY <1>0, <2>1, GotoMoves DEF Handles
  <2> QED
    BY <1>2, <2>2 DEF StopWaiting, ctlVars, ticker
<1>3. CASE LoadTokens(t)
  BY <1>3 DEF LoadTokens, Handles, poolVars, vuVars, ctlVars, ticker
<1>4. CASE TakeToken(t)
  <2>1. Handles' = Handles
    <3>1. CASE tokens = held[t]
      <4>1. Goto(t, "iter") /\ pc[t] # "free"
        BY <1>4, <3>1 DEF TakeToken
      <4> QED
        BY <1>0, <4>1, GotoMoves DEF Handles
    <3>2. CASE tokens # held[t]
      BY <1>4, <3>2 DEF TakeToken, Handles
    <3> QED
      BY <3>1, <3>2
  <2> QED
    BY <1>4, <2>1 DEF TakeToken, ctlVars, ticker
<1>5. CASE AbortWaiting(t)
  <2>1. Handles' = Handles
    BY <1>0, <1>5, VuKeepsHeld, HandlesHeld DEF AbortWaiting, VuStep, TaskState
  <2> QED
    BY <1>5, <2>1 DEF AbortWaiting, AbortTask, ctlVars, ticker
<1>6. CASE CommonStep(t) /\ UNCHANGED arrVars
  <2>1. VuStep(t) \/ CompleteIteration(t)
    BY <1>6 DEF CommonStep, VuStep
  <2>2. Handles' = Handles
    BY <1>0, <2>1, VuKeepsHeld, HandlesHeld DEF TaskState
  <2> QED
    BY <1>0, <1>6, <2>2, CommonStepOK DEF arrVars, ticker
<1> QED
  BY <1>1, <1>2, <1>3, <1>4, <1>5, <1>6 DEF Vu, CommonStep

\* The ticker moves current_vus with the handles it spawns, and the reap puts a
\* new task where it found a finished one.
LEMMA TickerHandles ==
  ASSUME TypeOK, HandlesCounted, Ticker
  PROVE  HandlesCounted'
<1>0. /\ cur \in Nat /\ MaxVus \in Nat /\ PreAlloc \in Nat
      /\ AtLeastOne(PreAlloc) \in Nat /\ Cardinality(Handles) \in Nat
  BY ArrivalAssumption, HandlesHeld, HeldFinite DEF TypeOK, AtLeastOne
<1>1. CASE PreSpawn
  <2>1. Cardinality(Handles) = 0
    BY <1>1, FS_EmptySet DEF PreSpawn, HandlesCounted
  <2>2. Cardinality(Handles') = AtLeastOne(PreAlloc) /\ cur' = AtLeastOne(PreAlloc) /\ ctl' = "tick"
    BY <1>0, <1>1, <2>1, SpawnedHandles DEF PreSpawn
  <2> QED
    BY <2>2 DEF HandlesCounted, PoolHeld
<1>2. CASE Grow
  <2>1. /\ GrowBy \in Nat
        /\ GrowBy = 0 \/ cur + GrowBy <= MaxVus
    BY <1>0, ArrivalAssumption DEF TypeOK, GrowBy, Lower
  <2>2. Cardinality(Handles') = Cardinality(Handles) + GrowBy /\ cur' = cur + GrowBy /\ ctl' = "reap"
    BY <1>2, <2>1, SpawnedHandles DEF Grow
  <2>3. Cardinality(Handles) = cur /\ (cur <= MaxVus \/ cur = AtLeastOne(PreAlloc))
    BY <1>2 DEF Grow, HandlesCounted, PoolHeld, TickState
  <2> QED
    BY <1>0, <2>1, <2>2, <2>3 DEF HandlesCounted, PoolHeld
<1>3. CASE ReapTick
  <2>1. Handles' = Handles
    BY <1>3 DEF ReapTick, Respawned, Handles
  <2> QED
    BY <1>3, <2>1 DEF ReapTick, HandlesCounted, PoolHeld, TickState, arrVars, ticker
<1>4. CASE NothingToRun \/ LeaveTicks
  BY <1>4 DEF NothingToRun, LeaveTicks, HandlesCounted, PoolHeld, TickState
<1>5. CASE Tick \/ AddTokens \/ LoadQueued
  <2>1. Handles' = Handles /\ cur' = cur /\ ctl \in TickState /\ ctl' \in TickState
    BY <1>5 DEF Tick, AddTokens, LoadQueued, Handles, vuVars, TickState
  <2> QED
    BY <2>1 DEF HandlesCounted, PoolHeld, TickState
<1> QED
  BY <1>1, <1>2, <1>3, <1>4, <1>5 DEF Ticker

\* The executor holds exactly current_vus handles while it ticks, and never more
\* than max_vus unless it preallocated them: dead VUs are replaced one for one,
\* for every interleaving of deaths, respawns and growth under pressure.
THEOREM PoolIsHeld == Spec => []PoolHeld
<1>1. Init => HandlesCounted
  <2> SUFFICES ASSUME Init PROVE HandlesCounted
    OBVIOUS
  <2>1. Handles = {}
    BY DEF Init, PoolInit, Handles
  <2> QED
    BY <2>1 DEF Init, HandlesCounted, PoolHeld, TickState
<1>2. IInv /\ HandlesCounted /\ [Next]_vars => HandlesCounted'
  <2> SUFFICES ASSUME IInv, HandlesCounted, [Next]_vars PROVE HandlesCounted'
    OBVIOUS
  <2>0. TypeOK
    BY DEF IInv
  <2>1. CASE Ticker
    BY <2>0, <2>1, TickerHandles
  <2>2. CASE Ending
    <3>1. ctl' \notin TickState /\ ctl' # "start"
      BY <2>2 DEF Ending, RunTail, SoftStop, Drained, GraceExpired, HandlesJoined, JoinBoundExpired, TickState
    <3> QED
      BY <3>1 DEF HandlesCounted, PoolHeld
  <2>3. CASE External \/ SampleDropped \/ UNCHANGED vars
    <3>1. UNCHANGED <<pc, ctl, cur>>
      BY <2>3 DEF External, RequestStop, RequestForceStop, TogglePaused, SampleDropped, vars, poolVars,
         vuVars, ctlVars, arrVars, ticker
    <3> QED
      BY <3>1 DEF HandlesCounted, PoolHeld, Handles
  <2>4. CASE Flush
    BY <2>4 DEF Flush, HandlesCounted, PoolHeld, TickState
  <2>5. ASSUME NEW t \in Task, Vu(t)
        PROVE  HandlesCounted'
    BY <2>0, <2>5, VuHandles DEF HandlesCounted, PoolHeld
  <2> QED
    BY <2>1, <2>2, <2>3, <2>4, <2>5 DEF Next
<1> QED
  BY <1>1, <1>2, Inductive, PTL DEF Spec, HandlesCounted
=============================================================================
