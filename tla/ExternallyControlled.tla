------------------------ MODULE ExternallyControlled ------------------------
(***************************************************************************)
(* VUScheduler::run_externally_controlled and the control API that drives  *)
(* it (crates/tropel-engine/src/control_api.rs): a control loop reconciles *)
(* the VU pool with a target a client may change at any time.  control_    *)
(* spawned, the loop's logical pool size, is read and written by the loop  *)
(* and decremented by every VU that leaves, and the API is up before the   *)
(* loop seeds the target, the cap and the ceiling, so each access of the   *)
(* loop and of a PATCH handler to one of these is an action of its own.    *)
(***************************************************************************)
EXTENDS VuPool

CONSTANTS
  InitialVus,  \* vus of the executor options
  MaxVus,      \* max_vus of the executor options: control_hard_max
  ApiVus,      \* the vus and max values clients send
  Conn,        \* the control API's connection permits (MAX_CONNS)
  MaxApi,      \* bound on the number of PATCH requests
  Timed        \* the executor has a duration

ASSUME ControlAssumption ==
  /\ InitialVus \in Nat /\ MaxVus \in Nat
  /\ ApiVus \subseteq Nat
  /\ MaxApi \in Nat
  /\ Timed \in BOOLEAN

VARIABLES
  ctarget,     \* control_target_vus
  cmax,        \* control_max_vus
  hard,        \* control_hard_max
  patch,       \* where the handler of each connection is, and its locals
  apiCalls,    \* PATCH requests taken up
  late,        \* history: a PATCH that loaded the ceiling before the executor
               \* stored it has since stored more than it allows
  goal,        \* the loop's local `target`
  snap         \* the loop's local `spawned` (and `initial` before the loop)

apiVars == <<ctarget, cmax, hard, patch, apiCalls, late>>
locals == <<goal, snap>>
vars == <<poolVars, apiVars, locals>>

LoopState == {"loop", "grow", "add", "shrink", "check", "reset"}
SeedState == {"seed", "seedMax", "seedTarget", "initial"}
CtlState == LoopState \cup SeedState \cup
              {"store", "register", "stopping", "drain", "join", "done"}
Looping == ctl \in LoopState

Lower(a, b) == IF a < b THEN a ELSE b

\* The handler of a connection: waiting for a request, or about to store the cap,
\* or the target.
Idle == [at |-> "idle", vus |-> 0, max |-> 0, hard |-> 0]
Handler == [at : {"idle", "max", "target"}, vus : Nat, max : Nat, hard : Nat]

TypeOK ==
  /\ PoolTypeOK
  /\ ctl \in CtlState
  /\ ctarget \in Nat /\ cmax \in Nat /\ hard \in Nat
  /\ patch \in [Conn -> Handler]
  /\ apiCalls \in 0..MaxApi
  /\ late \in BOOLEAN
  /\ goal \in Nat /\ snap \in Nat

Init ==
  /\ PoolInit
  /\ ctl = "seed"
  /\ ctarget = 0 /\ cmax = 0 /\ hard = MaxU32
  /\ patch = [c \in Conn |-> Idle] /\ apiCalls = 0 /\ late = FALSE
  /\ goal = 0 /\ snap = 0

-----------------------------------------------------------------------------
(* The executor.                                                           *)

\* run_vu, n times.  A finished handle has no further effect here, so the slot
\* of one that is not reaped yet may be taken too.
Spawn(n) ==
  \E T \in SUBSET {t \in Task : Quiet(t)} :
    /\ Cardinality(T) = n
    /\ pc' = [t \in Task |-> IF t \in T THEN "spawned" ELSE pc[t]]

\* Back to the top of the loop, where its locals are out of scope.
NextRound == ctl' = "loop" /\ goal' = 0 /\ snap' = 0

\* Seed the control state from the options: the ceiling, the cap, the target ...
SeedHardMax ==
  /\ ctl = "seed" /\ ctl' = "seedMax"
  /\ hard' = MaxVus
  /\ UNCHANGED <<vuVars, active, flags, rdVars, spawned, paused, aborted, locals>>
  /\ UNCHANGED <<ctarget, cmax, patch, apiCalls, late>>

SeedMax ==
  /\ ctl = "seedMax" /\ ctl' = "seedTarget"
  /\ cmax' = MaxVus
  /\ UNCHANGED <<vuVars, active, flags, rdVars, spawned, paused, aborted, locals>>
  /\ UNCHANGED <<ctarget, hard, patch, apiCalls, late>>

SeedTarget ==
  /\ ctl = "seedTarget" /\ ctl' = "initial"
  /\ ctarget' = Lower(InitialVus, MaxVus)
  /\ UNCHANGED <<vuVars, active, flags, rdVars, spawned, paused, aborted, locals>>
  /\ UNCHANGED <<cmax, hard, patch, apiCalls, late>>

\* ... spawn as many VUs as the target now says ...
SpawnInitial ==
  /\ ctl = "initial" /\ ctl' = "store"
  /\ goal' = ctarget
  /\ Spawn(ctarget)
  /\ UNCHANGED <<seen, deaths, active, flags, rdVars, spawned, paused, aborted, apiVars, snap>>

\* ... record the pool size, overwriting what VUs did to it meanwhile ...
StoreInitial ==
  /\ ctl = "store" /\ ctl' = "register"
  /\ spawned' = goal
  /\ UNCHANGED <<vuVars, active, flags, rdVars, paused, aborted, apiVars, locals>>

\* ... and wait, at most 5 s, until they registered.
Register ==
  /\ ctl = "register" /\ NextRound
  /\ UNCHANGED <<vuVars, active, flags, rdVars, spawned, paused, aborted, apiVars>>

\* handles.retain(|h| !h.is_finished()) at the top of every round.
Reaped == [t \in Task |-> IF pc[t] = "finished" THEN "free" ELSE pc[t]]

\* A stop or the duration ends the loop.
LeaveLoop ==
  /\ ctl = "loop" /\ (Stopping \/ Timed)
  /\ ctl' = "stopping"
  /\ pc' = Reaped
  /\ UNCHANGED <<seen, deaths, active, flags, rdVars, spawned, paused, aborted, apiVars, locals>>

\* A round while paused only reaps.
PausedRound ==
  /\ ctl = "loop" /\ ~Stopping /\ paused
  /\ pc' = Reaped
  /\ UNCHANGED <<seen, deaths, active, flags, rdVars, spawned, paused, ctlVars, apiVars, locals>>

\* One round, not paused: load the target and the logical pool size.
Reconcile ==
  /\ ctl = "loop" /\ ~Stopping /\ ~paused
  /\ pc' = Reaped
  /\ LET target == Lower(ctarget, cmax)
     IN  \/ target = spawned /\ NextRound
         \/ /\ target # spawned
            /\ goal' = target /\ snap' = spawned
            /\ ctl' = IF target > spawned THEN "grow" ELSE "shrink"
  /\ UNCHANGED <<seen, deaths, active, flags, rdVars, spawned, paused, aborted, apiVars>>

\* Grow: disarm the ramp-down, then spawn the difference ...
Grow ==
  /\ ctl = "grow" /\ ctl' = "add"
  /\ clear_ramp_down
  /\ Spawn(goal - snap)
  /\ UNCHANGED <<seen, deaths, active, flags, spawned, paused, aborted, apiVars, locals>>

\* Mutant: the absolute store the fetch_add replaced.
StoreAbsolute ==
  /\ ctl = "add" /\ NextRound
  /\ spawned' = goal
  /\ UNCHANGED <<vuVars, active, flags, rdVars, paused, aborted, apiVars>>

\* ... and add it to the logical pool size.
AddSpawned ==
  /\ ctl = "add" /\ NextRound
  /\ spawned' = spawned + (goal - snap)
  /\ UNCHANGED <<vuVars, active, flags, rdVars, paused, aborted, apiVars>>

\* Shrink: arm the surplus once the previous one is fully claimed ...
Shrink ==
  /\ ctl = "shrink"
  /\ \/ rdRemaining = 0 /\ set_ramp_down_target(goal, snap) /\ NextRound
     \/ rdRemaining # 0 /\ ctl' = "check" /\ UNCHANGED <<rdVars, locals>>
  /\ UNCHANGED <<vuVars, active, flags, spawned, paused, aborted, apiVars>>

\* ... otherwise, if the pool is already at or below the target, reset it.
CheckStale ==
  /\ ctl = "check"
  /\ \/ active <= goal /\ ctl' = "reset" /\ UNCHANGED locals
     \/ active > goal /\ NextRound
  /\ UNCHANGED <<vuVars, active, flags, rdVars, spawned, paused, aborted, apiVars>>

ResetStale ==
  /\ ctl = "reset" /\ NextRound
  /\ clear_ramp_down
  /\ UNCHANGED <<vuVars, active, flags, spawned, paused, aborted, apiVars>>

Control ==
  \/ SeedHardMax \/ SeedMax \/ SeedTarget \/ SpawnInitial \/ StoreInitial \/ Register
  \/ LeaveLoop \/ PausedRound \/ Reconcile
  \/ Grow \/ AddSpawned \/ Shrink \/ CheckStale \/ ResetStale

-----------------------------------------------------------------------------
(* PATCH /v1/status.  The server is up before the executor runs and is     *)
(* told to end when it returns; a handler that began goes on by itself.    *)

Served(c) ==
  /\ patch[c].at = "idle" /\ ctl # "done"
  /\ apiCalls < MaxApi /\ apiCalls' = apiCalls + 1

Handle(c, h) == patch' = [patch EXCEPT ![c] = h]

Clamp(vus, max) == [at |-> "max", vus |-> Lower(vus, max), max |-> max, hard |-> hard]

\* Mutant: the client's max is not clamped to the ceiling.
Unclamped(c, vus, max) == Handle(c, Clamp(vus, max))

\* set_control_target loads the ceiling, clamps max to it and vus to max ...
set_control_target(c, vus, max) == Handle(c, Clamp(vus, Lower(max, hard)))

\* The request has vus, max or both; a missing one is its current value.  (The
\* ceiling changes once, so this load and the ceiling's make one action.)
PatchVus(c) ==
  /\ Served(c)
  /\ \E vus \in ApiVus \cup {ctarget}, max \in ApiVus \cup {cmax} :
       (vus \in ApiVus \/ max \in ApiVus) /\ set_control_target(c, vus, max)
  /\ UNCHANGED <<poolVars, locals, ctarget, cmax, hard, late>>

Late(c, n) == late \/ (patch[c].hard # hard /\ n > hard)

\* ... stores the cap ...
StoreMax(c) ==
  /\ patch[c].at = "max"
  /\ Handle(c, [patch[c] EXCEPT !.at = "target", !.max = 0])
  /\ cmax' = patch[c].max
  /\ late' = Late(c, patch[c].max)
  /\ UNCHANGED <<poolVars, locals, ctarget, hard, apiCalls>>

\* ... and the target.
StoreTarget(c) ==
  /\ patch[c].at = "target"
  /\ Handle(c, Idle)
  /\ ctarget' = patch[c].vus
  /\ late' = Late(c, patch[c].vus)
  /\ UNCHANGED <<poolVars, locals, cmax, hard, apiCalls>>

\* set_paused.  (A request's `stopped` is RequestStop; one with several of the
\* three is as many requests, one after the other.)
PatchPaused(c) ==
  /\ Served(c)
  /\ TogglePaused
  /\ UNCHANGED <<locals, ctarget, cmax, hard, patch, late>>

Patch(c) == PatchVus(c) \/ StoreMax(c) \/ StoreTarget(c) \/ PatchPaused(c)

-----------------------------------------------------------------------------
(* The specification.  VU tasks run on their own threads and the executor  *)
(* polls, so each keeps taking steps.  Spec promises nothing about an      *)
(* iteration: a VU may hang in one forever.  IterSpec adds that iterations *)
(* end.                                                                    *)

Vu(t) ==
  /\ VuStep(t) \/ PassGate(t, "iter") \/ CompleteIteration(t)
  /\ UNCHANGED <<apiVars, locals>>

External == (RequestStop \/ RequestForceStop) /\ UNCHANGED <<apiVars, locals>>

Ending == RunTail /\ UNCHANGED <<apiVars, locals>>

Next ==
  \/ Control \/ Ending \/ External
  \/ \E c \in Conn : Patch(c)
  \/ \E t \in Task : Vu(t)

\* The steps that take a VU from its spawn to an iteration and out of the pool.
Progress(t) ==
  /\ \/ StartVu(t) \/ LoopTop(t) \/ ReadRampDownTarget(t) \/ ClaimRampDown(t)
     \/ ClaimedExit(t) \/ DropGuard(t) \/ DropLease(t) \/ FinishTask(t)
     \/ PassGate(t, "iter")
  /\ UNCHANGED <<apiVars, locals>>

IterationEnds(t) == CompleteIteration(t) /\ UNCHANGED <<apiVars, locals>>

Fairness == WF_vars(Control) /\ WF_vars(Ending) /\ \A t \in Task : WF_vars(Progress(t))

Spec == Init /\ [][Next]_vars /\ Fairness

IterSpec == Spec /\ \A t \in Task : WF_vars(IterationEnds(t))

-----------------------------------------------------------------------------
(* Properties.                                                             *)

\* The VUs the logical pool size stands for: spawned, and not yet past the
\* decrement of the way out they take.
PoolState == {"spawned", "init", "top", "read", "cas", "won", "gate", "wait", "iter", "exit"}
Pool == {t \in Task : pc[t] \in PoolState}

\* However grows, shrinks, exits and PATCHes interleave, the control loop never
\* holds more VUs than the configured max_vus: a lagging registration or a lost
\* decrement never makes it spawn a VU twice, and no client can ask for more.
\* The one exception is a PATCH that straddles the seed.
PoolWithinCap == ~late => Cardinality(Pool) <= MaxVus

\* A client cannot exceed the configured cap, whenever it sends its PATCH.
CapIsHard == Cardinality(Pool) <= MaxVus

\* As long as nobody stopped the run and no VU died, control_spawned is exactly
\* the number of VUs in the pool between the loop's own accesses: the fetch_add
\* of a grow loses none of the decrements of VUs that claim their exit
\* meanwhile, and no exit is counted twice.
PoolCounted ==
  ctl \in LoopState \ {"add"} /\ ~Stopping /\ deaths = 0 => spawned = Cardinality(Pool)

\* No PATCH is in flight or will come, and the loop is free to act.
Settled ==
  /\ Looping /\ ~Stopping /\ ~paused
  /\ apiCalls = MaxApi /\ \A c \in Conn : patch[c].at = "idle"
Target == Lower(ctarget, cmax)

\* A shrink comes to its end: a pool above its final target gets down to it.
ShrinkReachesTarget ==
  (Settled /\ deaths = 0) ~> (~Settled \/ deaths > 0 \/ Cardinality(Pool) <= Target)

\* A VU that dies is replaced: once no VU can die any more, the pool returns
\* to its final target.
DeadVuReplaced ==
  (Settled /\ deaths = MaxDeaths) ~> (~Settled \/ Cardinality(Pool) >= Target)
=============================================================================
