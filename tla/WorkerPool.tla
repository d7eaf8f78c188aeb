----------------------------- MODULE WorkerPool -----------------------------
(***************************************************************************)
(* VUWorkerPool (crates/tropel-engine/src/worker.rs): one OS thread with a *)
(* single-threaded runtime for each VU that lives at a time.  The ramp     *)
(* loops of all the scenarios call spawn_vu at once; a worker is built     *)
(* outside the lock, so two callers may race to grow the pool.             *)
(*                                                                         *)
(* find_idle_slot holds the lock of the busy flags while it scans and only *)
(* clears happen meanwhile, so a scan that finds nothing found every flag  *)
(* set when it began: the scan is one action.  vu_id is any number, and so *)
(* is vu_id % current.  A worker that lost the race is told to stop and    *)
(* forgotten: nothing refers to it.                                        *)
(***************************************************************************)
EXTENDS Integers, Sequences, FiniteSets

CONSTANTS
  Vu,              \* VUs that may live at once; the slot of one is used again
  InitialWorkers,  \* count, one for each core
  MaxWorkers       \* MAX_WORKERS

ASSUME WorkerAssumption ==
  /\ IsFiniteSet(Vu)
  /\ InitialWorkers \in Nat /\ MaxWorkers \in Nat \ {0}

VARIABLES
  busy,            \* the busy flag of each worker
  thread,          \* its OS thread
  growthFailed,    \* growth_failed
  at,              \* where each VU is in spawn_vu, or how it runs
  host,            \* the worker it runs on, 0 if none
  polled,          \* VUs whose task was polled: their BusyGuard exists
  snap,            \* `current`, as acquire_slot read it
  blocked,         \* VUs inside a blocking call, which occupies their thread
  drop,            \* Drop: "no", "joining", "done"
  joined,          \* workers Drop is done with
  late,            \* the join bound has passed
  peak,            \* history: the most VUs there ever were at once
  leaked           \* history: workers whose flag an aborted VU left behind

slotVars == <<busy, growthFailed, at, host, snap>>
dropVars == <<drop, joined, late>>
history == <<peak, leaked>>
workerVars == <<slotVars, thread, polled, blocked, dropVars, history>>

Acquiring == {"find", "current", "build", "insert"}
Grower == {v \in Vu : at[v] \in {"current", "build", "insert"}}
Owner == {v \in Vu : at[v] = "own"}
Hosted == {v \in Vu : at[v] \in {"own", "wrapped"}}
Present == {v \in Vu : at[v] # "out"}

MaxOf(m, n) == IF m > n THEN m ELSE n

WorkerTypeOK ==
  /\ busy \in Seq(BOOLEAN)
  /\ thread \in Seq({"runs", "notified", "exited"}) /\ Len(thread) = Len(busy)
  /\ growthFailed \in BOOLEAN
  /\ at \in [Vu -> Acquiring \cup {"out", "own", "wrapped", "inline"}]
  /\ host \in [Vu -> Nat] /\ snap \in [Vu -> Nat]
  /\ \A v \in Vu : snap[v] <= Len(busy)
  /\ \A v \in Hosted : host[v] \in 1..Len(busy)
  /\ polled \subseteq Hosted /\ blocked \subseteq polled
  /\ drop \in {"no", "joining", "done"} /\ joined \in Nat /\ late \in BOOLEAN
  /\ peak \in Nat /\ leaked \subseteq 1..Len(busy)

\* A worker that could not be built when the pool was is skipped.
WorkerInit ==
  /\ \E n \in 0..InitialWorkers :
       busy = [i \in 1..n |-> FALSE] /\ thread = [i \in 1..n |-> "runs"]
  /\ growthFailed = FALSE
  /\ at = [v \in Vu |-> "out"] /\ host = [v \in Vu |-> 0] /\ snap = [v \in Vu |-> 0]
  /\ polled = {} /\ blocked = {}
  /\ drop = "no" /\ joined = 0 /\ late = FALSE
  /\ peak = 0 /\ leaked = {}

-----------------------------------------------------------------------------
(* acquire_slot.                                                           *)

SpawnVu(v) ==
  /\ drop = "no" /\ at[v] = "out"
  /\ at' = [at EXCEPT ![v] = "find"]
  /\ peak' = MaxOf(peak, Cardinality(Present) + 1)
  /\ UNCHANGED <<busy, growthFailed, host, snap, thread, polled, blocked, dropVars, leaked>>

FindIdle(v) ==
  /\ at[v] = "find"
  /\ \E i \in 1..Len(busy) :
       /\ ~busy[i]
       /\ busy' = [busy EXCEPT ![i] = TRUE]
       /\ host' = [host EXCEPT ![v] = i]
  /\ growthFailed' = FALSE
  /\ at' = [at EXCEPT ![v] = "own"]
  /\ UNCHANGED <<snap, thread, polled, blocked, dropVars, history>>

\* Mutant: a worker for every VU, without a look at the idle ones.
GrowAnyway(v) ==
  /\ at[v] = "find"
  /\ at' = [at EXCEPT ![v] = "current"]
  /\ UNCHANGED <<busy, growthFailed, host, snap, thread, polled, blocked, dropVars, history>>

FindNone(v) ==
  /\ at[v] = "find" /\ \A i \in 1..Len(busy) : busy[i]
  /\ at' = [at EXCEPT ![v] = "current"]
  /\ UNCHANGED <<busy, growthFailed, host, snap, thread, polled, blocked, dropVars, history>>

\* The VU shares one of the first n workers, or runs on its caller's runtime.
WrapOrInline(v, n) ==
  IF n > 0
    THEN /\ \E i \in 1..n : host' = [host EXCEPT ![v] = i]
         /\ at' = [at EXCEPT ![v] = "wrapped"]
    ELSE at' = [at EXCEPT ![v] = "inline"] /\ UNCHANGED host

ReadCurrent(v) ==
  /\ at[v] = "current"
  /\ IF Len(busy) >= MaxWorkers \/ growthFailed
       THEN WrapOrInline(v, Len(busy)) /\ UNCHANGED snap
       ELSE /\ snap' = [snap EXCEPT ![v] = Len(busy)]
            /\ at' = [at EXCEPT ![v] = "build"] /\ UNCHANGED host
  /\ UNCHANGED <<busy, growthFailed, thread, polled, blocked, dropVars, history>>

Built(v) ==
  /\ at[v] = "build"
  /\ at' = [at EXCEPT ![v] = "insert"]
  /\ UNCHANGED <<busy, growthFailed, host, snap, thread, polled, blocked, dropVars, history>>

\* No thread or no runtime to be had; the failure is remembered.
BuildFails(v) ==
  /\ at[v] = "build"
  /\ growthFailed' = TRUE
  /\ WrapOrInline(v, snap[v]) /\ snap' = [snap EXCEPT ![v] = 0]
  /\ UNCHANGED <<busy, thread, polled, blocked, dropVars, history>>

\* Under the lock: the new worker, busy from birth, joins the pool if nobody
\* grew it meanwhile.  Otherwise it is surplus, and the length is read again;
\* the idle slots are not looked at again.
Insert(v) ==
  /\ at[v] = "insert"
  /\ IF Len(busy) = snap[v]
       THEN /\ busy' = Append(busy, TRUE) /\ thread' = Append(thread, "runs")
            /\ host' = [host EXCEPT ![v] = Len(busy) + 1]
            /\ at' = [at EXCEPT ![v] = "own"]
       ELSE at' = [at EXCEPT ![v] = "current"] /\ UNCHANGED <<busy, thread, host>>
  /\ snap' = [snap EXCEPT ![v] = 0]
  /\ UNCHANGED <<growthFailed, polled, blocked, dropVars, history>>

Acquire(v) ==
  FindIdle(v) \/ FindNone(v) \/ ReadCurrent(v) \/ Built(v) \/ BuildFails(v) \/ Insert(v)

-----------------------------------------------------------------------------
(* The VUs on their threads.                                               *)

Occupied(i) == \E v \in blocked : host[v] = i

\* The worker polls the VU's task for the first time, which makes its guard.
FirstPoll(v) ==
  /\ v \in Hosted \ polled /\ ~Occupied(host[v])
  /\ polled' = polled \cup {v}
  /\ UNCHANGED <<slotVars, thread, blocked, dropVars, history>>

Block(v) ==
  /\ v \in polled /\ ~Occupied(host[v])
  /\ blocked' = blocked \cup {v}
  /\ UNCHANGED <<slotVars, thread, polled, dropVars, history>>

Unblock(v) ==
  /\ v \in blocked /\ blocked' = blocked \ {v}
  /\ UNCHANGED <<slotVars, thread, polled, dropVars, history>>

\* Mutant: whoever ends clears the flag of the worker it ran on.
ClearAll(V) == [i \in 1..Len(busy) |-> busy[i] /\ \A v \in V : host[v] # i]

\* BusyGuard: only a VU that owns its slot clears the flag.
Release(V) == [i \in 1..Len(busy) |-> busy[i] /\ \A v \in V \cap Owner : host[v] # i]

Leave(v) ==
  /\ at' = [at EXCEPT ![v] = "out"] /\ host' = [host EXCEPT ![v] = 0]
  /\ polled' = polled \ {v}

\* The VU's future returns, panics or is aborted.
VuEnds(v) ==
  /\ at[v] = "inline" \/ (v \in polled /\ ~Occupied(host[v]))
  /\ busy' = Release({v})
  /\ Leave(v)
  /\ UNCHANGED <<growthFailed, snap, thread, blocked, dropVars, history>>

\* The VU is aborted (await_handles_bounded) before its first poll: no guard was
\* made yet, and the flag of the slot it owns stays set.
AbortUnpolled(v) ==
  /\ v \in Hosted \ polled /\ ~Occupied(host[v])
  /\ leaked' = leaked \cup {host[w] : w \in {v} \cap Owner}
  /\ Leave(v)
  /\ UNCHANGED <<busy, growthFailed, snap, thread, blocked, dropVars, peak>>

-----------------------------------------------------------------------------
(* Drop, once nobody can call spawn_vu any more.                           *)

StartDrop ==
  /\ drop = "no" /\ \A v \in Vu : at[v] \notin Acquiring
  /\ drop' = "joining"
  /\ thread' = [i \in 1..Len(thread) |-> "notified"]
  /\ UNCHANGED <<slotVars, polled, blocked, joined, late, history>>

\* block_on returns and the runtime drops what still runs on it; a task that was
\* never polled leaves its flag.
ThreadExits(i) ==
  LET gone == {v \in Hosted : host[v] = i} IN
  /\ thread[i] = "notified" /\ ~Occupied(i)
  /\ thread' = [thread EXCEPT ![i] = "exited"]
  /\ busy' = Release(gone \cap polled)
  /\ leaked' = leaked \cup {host[v] : v \in (gone \cap Owner) \ polled}
  /\ polled' = polled \ gone
  /\ at' = [v \in Vu |-> IF v \in gone THEN "out" ELSE at[v]]
  /\ host' = [v \in Vu |-> IF v \in gone THEN 0 ELSE host[v]]
  /\ UNCHANGED <<growthFailed, snap, blocked, dropVars, peak>>

JoinBoundPasses ==
  /\ drop = "joining" /\ ~late /\ late' = TRUE
  /\ UNCHANGED <<slotVars, thread, polled, blocked, drop, joined, history>>

\* Mutant: join() without a bound.
JoinForever ==
  /\ drop = "joining" /\ joined < Len(thread)
  /\ thread[joined + 1] = "exited"
  /\ joined' = joined + 1
  /\ UNCHANGED <<slotVars, thread, polled, blocked, drop, late, history>>

\* recv_timeout: the thread said that it exits and is joined, or the deadline
\* all the workers share has passed and it is left to itself.
JoinOrDetach ==
  /\ drop = "joining" /\ joined < Len(thread)
  /\ thread[joined + 1] = "exited" \/ late
  /\ joined' = joined + 1
  /\ UNCHANGED <<slotVars, thread, polled, blocked, drop, late, history>>

DropReturns ==
  /\ drop = "joining" /\ joined = Len(thread) /\ drop' = "done"
  /\ UNCHANGED <<slotVars, thread, polled, blocked, joined, late, history>>

DropStep == JoinBoundPasses \/ JoinOrDetach \/ DropReturns

-----------------------------------------------------------------------------

WorkerNext ==
  \/ \E v \in Vu : SpawnVu(v) \/ Acquire(v)
  \/ \E v \in Vu : FirstPoll(v) \/ Block(v) \/ Unblock(v) \/ VuEnds(v) \/ AbortUnpolled(v)
  \/ StartDrop \/ DropStep
  \/ \E i \in 1..Len(thread) : ThreadExits(i)

\* The caller of spawn_vu and the thread that drops the pool go on; a VU may
\* block for ever.
WorkerFairness ==
  /\ \A v \in Vu : WF_workerVars(Acquire(v))
  /\ WF_workerVars(DropStep)

WorkerSpec == WorkerInit /\ [][WorkerNext]_workerVars /\ WorkerFairness

-----------------------------------------------------------------------------
(* Properties.                                                             *)

\* The pool never has more workers than cores, or than there were VUs at once
\* and flags left behind: not one for each VU there ever was, however the callers
\* race to grow it and however the VUs end.
SizedToPeak == Len(busy) <= MaxOf(InitialWorkers, peak + Cardinality(leaked))

\* A flag is set exactly while one VU owns the worker, or for ever if a VU that
\* owned it was aborted before its first poll: VUs that did not wrap never share
\* a thread, no flag is lost, and there is no other way to leave one behind.
FlagsAreOwners ==
  /\ \A i \in 1..Len(busy) : busy[i] <=> i \in leaked \/ \E v \in Owner : host[v] = i
  /\ \A v \in Owner : host[v] \notin leaked
  /\ \A v, w \in Owner : host[v] = host[w] => v = w

\* spawn_vu returns although the callers that race it keep winning, and the
\* pool is dropped in bounded time although its VUs block for ever.
PoolProgress ==
  /\ \A v \in Vu : at[v] = "find" ~> at[v] \notin Acquiring
  /\ drop = "joining" ~> drop = "done"
=============================================================================
