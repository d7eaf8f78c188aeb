------------------------------- MODULE VuPool -------------------------------
(***************************************************************************)
(* The VU pool every executor of crates/tropel-scheduler drives: the VU    *)
(* tasks (crates/tropel-engine/src/vu_loop.rs), the atomics of VUScheduler *)
(* they share with the executor, and the tail every duration executor ends *)
(* with (request_stop, wait_for_drain, await_handles_bounded).  One action *)
(* is one access to a shared atomic, or several whose order nothing else   *)
(* can observe.                                                            *)
(*                                                                         *)
(* Tasks are anonymous slots.  The executor holds the JoinHandle of every  *)
(* task it spawned until it reaps it, so the handles are exactly the tasks *)
(* that are not "free", and reaping a finished task frees its slot.        *)
(* Timers are not modelled: a deadline may pass whenever it is pending.    *)
(***************************************************************************)
EXTENDS Integers, FiniteSets

CONSTANTS
  Task,        \* VU task slots: the bound on tasks held at once
  MaxU32,      \* u32::MAX, which ramp_down_target holds when nothing is armed
  ZeroGrace,   \* gracefulStop is "0s"
  MaxDeaths    \* bound on init failures and panics

ASSUME TaskAssumption ==
  /\ IsFiniteSet(Task)
  /\ MaxU32 \in Nat
  /\ Cardinality(Task) < MaxU32
  /\ ZeroGrace \in BOOLEAN
  /\ MaxDeaths \in Nat

VARIABLES
  pc,          \* where each VU task is
  seen,        \* the active_vus value a VU loaded at its loop top
  deaths,      \* init failures and panics so far
  active,      \* active_vus
  stop,        \* stop_requested
  force,       \* force_stop_requested
  rdTarget,    \* ramp_down_target
  rdRemaining, \* ramp_down_remaining
  spawned,     \* control_spawned
  paused,      \* control_paused
  ctl,         \* where the executor is
  aborted      \* await_handles_bounded gave up and aborted the stragglers

vuVars == <<pc, seen, deaths>>
flags == <<stop, force>>
rdVars == <<rdTarget, rdRemaining>>
ctlVars == <<ctl, aborted>>
poolVars == <<vuVars, active, flags, rdVars, spawned, paused, ctlVars>>

(***************************************************************************)
(* "wait" is the arrival executors' wait for a token.  "exit", "lease" and *)
(* "ending" are the three drops of a VU task that ends: its                *)
(* ControlSpawnGuard, its VuLease, then the task itself (JoinHandle        *)
(* finished).                                                              *)
(***************************************************************************)
TaskState == {"free", "spawned", "init", "top", "read", "cas", "won", "gate",
              "wait", "iter", "exit", "lease", "ending", "finished"}

LeasedState == {"init", "top", "read", "cas", "won", "gate", "wait", "iter", "exit", "lease"}
Leased == {t \in Task : pc[t] \in LeasedState}
Quiet(t) == pc[t] \in {"free", "finished"}

Stopping == stop \/ force

\* Mutant: a raw fetch_sub.
WrapDec(n) == n - 1

\* The saturating decrement of every counter of VUScheduler.
SatDec(n) == IF n > 0 THEN n - 1 ELSE 0
SatSub(m, n) == IF m > n THEN m - n ELSE 0

PoolTypeOK ==
  /\ pc \in [Task -> TaskState]
  /\ seen \in [Task -> Nat]
  /\ deaths \in 0..MaxDeaths
  /\ active \in Nat
  /\ stop \in BOOLEAN /\ force \in BOOLEAN
  /\ rdTarget \in Nat /\ rdRemaining \in Nat
  /\ spawned \in Nat
  /\ paused \in BOOLEAN
  /\ aborted \in BOOLEAN

PoolInit ==
  /\ pc = [t \in Task |-> "free"]
  /\ seen = [t \in Task |-> 0]
  /\ deaths = 0
  /\ active = 0
  /\ stop = FALSE /\ force = FALSE
  /\ rdTarget = MaxU32 /\ rdRemaining = 0
  /\ spawned = 0
  /\ paused = FALSE
  /\ aborted = FALSE

-----------------------------------------------------------------------------
(* Ramp-down state of the scheduler, as the executors use it.              *)

set_ramp_down_target(target, current) ==
  /\ rdTarget' = target
  /\ rdRemaining' = SatSub(current, target)

arm_ramp_down_step(target) ==
  /\ rdTarget' = target
  /\ rdRemaining' = rdRemaining + 1

clear_ramp_down ==
  /\ rdTarget' = MaxU32
  /\ rdRemaining' = 0

-----------------------------------------------------------------------------
(* The VU task.                                                            *)

Goto(t, p) == pc' = [pc EXCEPT ![t] = p]

\* VuLease::acquire, the first statement of the task.
StartVu(t) ==
  /\ pc[t] = "spawned"
  /\ Goto(t, "init")
  /\ active' = active + 1
  /\ UNCHANGED <<seen, deaths, flags, rdVars, spawned, paused, ctlVars>>

\* The driver cannot be resolved or initialised: the task returns before
\* run_vu_loop creates its ControlSpawnGuard and decrements by hand.
InitFail(t) ==
  /\ pc[t] = "init" /\ deaths < MaxDeaths
  /\ Goto(t, "lease")
  /\ deaths' = deaths + 1
  /\ spawned' = SatDec(spawned)
  /\ UNCHANGED <<seen, active, flags, rdVars, paused, ctlVars>>

\* The loop top: stop flags, then the active count try_claim_ramp_down gets.
LoopTop(t) ==
  /\ pc[t] \in {"init", "top"}
  /\ \/ Stopping /\ Goto(t, "exit") /\ UNCHANGED seen
     \/ ~Stopping /\ Goto(t, "read") /\ seen' = [seen EXCEPT ![t] = active]
  /\ UNCHANGED <<deaths, active, flags, rdVars, spawned, paused, ctlVars>>

\* try_claim_ramp_down: load the target and compare ...
ReadRampDownTarget(t) ==
  /\ pc[t] = "read"
  /\ Goto(t, IF rdTarget = MaxU32 \/ seen[t] <= rdTarget THEN "gate" ELSE "cas")
  /\ seen' = [seen EXCEPT ![t] = 0]
  /\ UNCHANGED <<deaths, active, flags, rdVars, spawned, paused, ctlVars>>

\* ... take one of the surplus slots ...
ClaimRampDown(t) ==
  /\ pc[t] = "cas"
  /\ \/ /\ rdRemaining > 0
        /\ rdRemaining' = rdRemaining - 1
        /\ Goto(t, "won")
     \/ /\ rdRemaining = 0
        /\ Goto(t, "gate")
        /\ UNCHANGED rdRemaining
  /\ UNCHANGED <<seen, deaths, active, flags, rdTarget, spawned, paused, ctlVars>>

\* ... and take this VU off the externally-controlled pool.  The guard is
\* marked claimed, so only the lease is left to drop.
ClaimedExit(t) ==
  /\ pc[t] = "won"
  /\ Goto(t, "lease")
  /\ spawned' = SatDec(spawned)
  /\ UNCHANGED <<seen, deaths, active, flags, rdVars, paused, ctlVars>>

\* The pause gate, re-checked at least every 100 ms, and the stop check
\* behind it; next is where the executor's mode sends a VU that passes.
PassGate(t, next) ==
  /\ pc[t] = "gate"
  /\ \/ Stopping /\ Goto(t, "exit")
     \/ ~Stopping /\ ~paused /\ Goto(t, next)
  /\ UNCHANGED <<seen, deaths, active, flags, rdVars, spawned, paused, ctlVars>>

\* The iteration ran to its end (a soft stop never cancels it), possibly with
\* exec.test.abort(), which stops the run.
CompleteIteration(t) ==
  /\ pc[t] = "iter"
  /\ Goto(t, "top")
  /\ stop' \in {stop, TRUE}
  /\ UNCHANGED <<seen, deaths, active, force, rdVars, spawned, paused, ctlVars>>

\* Mutant: the decrement at the tail of the task, which a panic skips.
PanicLeaksLease(t) ==
  /\ pc[t] = "iter" /\ deaths < MaxDeaths
  /\ Goto(t, "ending")
  /\ deaths' = deaths + 1
  /\ UNCHANGED <<seen, active, flags, rdVars, spawned, paused, ctlVars>>

\* A panic in the iteration unwinds through the guards.
Panic(t) ==
  /\ pc[t] = "iter" /\ deaths < MaxDeaths
  /\ Goto(t, "exit")
  /\ deaths' = deaths + 1
  /\ UNCHANGED <<seen, active, flags, rdVars, spawned, paused, ctlVars>>

\* ControlSpawnGuard::drop, not marked claimed: vu_exited.
DropGuard(t) ==
  /\ pc[t] = "exit"
  /\ Goto(t, "lease")
  /\ spawned' = SatDec(spawned)
  /\ UNCHANGED <<seen, deaths, active, flags, rdVars, paused, ctlVars>>

\* VuLease::drop, the last drop of the task body.
DropLease(t) ==
  /\ pc[t] = "lease"
  /\ Goto(t, "ending")
  /\ active' = SatDec(active)
  /\ UNCHANGED <<seen, deaths, flags, rdVars, spawned, paused, ctlVars>>

\* The JoinHandle becomes finished.
FinishTask(t) ==
  /\ pc[t] = "ending"
  /\ Goto(t, "finished")
  /\ UNCHANGED <<seen, deaths, active, flags, rdVars, spawned, paused, ctlVars>>

\* JoinHandle::abort takes effect where the task waits; its guards drop.  A
\* task that has not started holds no lease, one still in init no guard.
AbortTask(t) ==
  /\ aborted
  /\ \/ pc[t] = "spawned" /\ Goto(t, "ending")
     \/ pc[t] = "init" /\ Goto(t, "lease")
     \/ pc[t] \in {"gate", "wait", "iter"} /\ Goto(t, "exit")
  /\ UNCHANGED <<seen, deaths, active, flags, rdVars, spawned, paused, ctlVars>>

\* The steps of a VU task that are the same in every executor.
VuStep(t) ==
  \/ StartVu(t) \/ InitFail(t) \/ LoopTop(t)
  \/ ReadRampDownTarget(t) \/ ClaimRampDown(t) \/ ClaimedExit(t)
  \/ Panic(t) \/ DropGuard(t) \/ DropLease(t) \/ FinishTask(t)
  \/ AbortTask(t)

-----------------------------------------------------------------------------
(* Requests from outside the executor.                                     *)

\* SIGINT, the control API, a breached abortOnFail threshold.
RequestStop ==
  /\ ~stop /\ stop' = TRUE
  /\ UNCHANGED <<vuVars, active, force, rdVars, spawned, paused, ctlVars>>

\* The second signal.
RequestForceStop ==
  /\ stop /\ ~force
  /\ force' = TRUE
  /\ UNCHANGED <<vuVars, active, stop, rdVars, spawned, paused, ctlVars>>

\* PATCH /v1/status with "paused": set_paused.
TogglePaused ==
  /\ paused' = ~paused
  /\ UNCHANGED <<vuVars, active, flags, rdVars, spawned, ctlVars>>

-----------------------------------------------------------------------------
(* The executors' common tail: "stopping" -> "drain" -> "join" -> "done".  *)

SoftStop ==
  /\ ctl = "stopping"
  /\ ctl' = "drain"
  /\ stop' = TRUE
  /\ UNCHANGED <<vuVars, active, force, rdVars, spawned, paused, aborted>>

\* wait_for_drain: with a zero grace force at once; otherwise return when no
\* VU is active.
Drained ==
  /\ ctl = "drain" /\ ~ZeroGrace /\ active = 0
  /\ ctl' = "join"
  /\ UNCHANGED <<vuVars, active, flags, rdVars, spawned, paused, aborted>>

GraceExpired ==
  /\ ctl = "drain" /\ (ZeroGrace \/ active > 0)
  /\ ctl' = "join"
  /\ force' = TRUE /\ stop' = TRUE
  /\ UNCHANGED <<vuVars, active, rdVars, spawned, paused, aborted>>

\* Mutant: takes an empty active_vus for "every VU is gone".
HandlesByActiveCount ==
  /\ ctl = "join" /\ active = 0
  /\ ctl' = "done"
  /\ UNCHANGED <<vuVars, active, flags, rdVars, spawned, paused, aborted>>

\* await_handles_bounded: every handle finished ...
HandlesJoined ==
  /\ ctl = "join" /\ \A t \in Task : Quiet(t)
  /\ ctl' = "done"
  /\ UNCHANGED <<vuVars, active, flags, rdVars, spawned, paused, aborted>>

\* Mutant: an unbounded join.
JoinUnbounded ==
  /\ ctl = "join" /\ \A t \in Task : Quiet(t)
  /\ ctl' = "done" /\ aborted' = TRUE
  /\ UNCHANGED <<vuVars, active, flags, rdVars, spawned, paused>>

\* ... or HANDLE_JOIN_BOUND passed and the rest is aborted.
JoinBoundExpired ==
  /\ ctl = "join" /\ ~\A t \in Task : Quiet(t)
  /\ ctl' = "done" /\ aborted' = TRUE
  /\ UNCHANGED <<vuVars, active, flags, rdVars, spawned, paused>>

RunTail == SoftStop \/ Drained \/ GraceExpired \/ HandlesJoined \/ JoinBoundExpired

-----------------------------------------------------------------------------
(* Properties of the pool under every executor.                            *)

\* active_vus counts exactly the VU tasks that hold a lease: no path out of a
\* task - claim, stop, init failure, panic, abort - leaks or doubles a
\* decrement, and the saturating subtraction of VuLease::drop never saturates.
ActiveIsLeases == active = Cardinality(Leased)

\* When the executor returns without having aborted anyone, no VU task is
\* left: not even one that was spawned and has not yet taken its lease, which
\* wait_for_drain cannot see.
DoneIsQuiet == ctl = "done" /\ ~aborted => \A t \in Task : Quiet(t)
=============================================================================
