------------------------- MODULE IterationExecutors -------------------------
(***************************************************************************)
(* VUScheduler::run_shared_iterations and run_per_vu_iterations: a fixed   *)
(* set of VUs works off a budget, shared or one for each, and the join of  *)
(* their handles races maxDuration.  Nobody replaces a VU that dies.       *)
(***************************************************************************)
EXTENDS VuPool

CONSTANTS
  Modes,         \* the executors a run may choose: a subset of Executor
  Vus,           \* vus
  Iterations,    \* iterations
  MaxIterations  \* MAX_ITERATIONS, the cap run_vus puts on it

Executor == {"shared", "per-vu"}

ASSUME IterationAssumption ==
  /\ Modes \subseteq Executor
  /\ Vus \in 0..Cardinality(Task)
  /\ Iterations \in Nat /\ MaxIterations \in Nat

VARIABLES
  mode,          \* the executor of the scenario
  claimed,       \* claimed_iterations
  completed,     \* total_iterations
  index          \* each VU's iteration_index

iterVars == <<mode, claimed, completed, index>>
vars == <<poolVars, iterVars>>

Budget == IF Iterations > MaxIterations THEN MaxIterations ELSE Iterations

TypeOK ==
  /\ PoolTypeOK
  /\ ctl \in {"start", "race", "stopping", "drain", "join", "done"}
  /\ mode \in Executor
  /\ claimed \in Nat /\ completed \in Nat
  /\ index \in [Task -> Nat]

Init ==
  /\ PoolInit
  /\ ctl = "start"
  /\ mode \in Modes
  /\ claimed = 0 /\ completed = 0
  /\ index = [t \in Task |-> 0]

-----------------------------------------------------------------------------
(* The executor.                                                           *)

SpawnAll ==
  /\ ctl = "start" /\ ctl' = "race"
  /\ \E T \in SUBSET Task :
       /\ Cardinality(T) = Vus
       /\ pc' = [t \in Task |-> IF t \in T THEN "spawned" ELSE pc[t]]
  /\ UNCHANGED <<seen, deaths, active, flags, rdVars, spawned, paused, aborted, iterVars>>

\* Every VU ended before maxDuration ...
AllJoined ==
  /\ ctl = "race" /\ \A t \in Task : Quiet(t)
  /\ ctl' = "done"
  /\ UNCHANGED <<vuVars, active, flags, rdVars, spawned, paused, aborted, iterVars>>

\* ... or maxDuration passed first.  A stop from outside is not looked at.
MaxDurationReached ==
  /\ ctl = "race" /\ ctl' = "stopping"
  /\ UNCHANGED <<vuVars, active, flags, rdVars, spawned, paused, aborted, iterVars>>

-----------------------------------------------------------------------------
(* The VU.                                                                 *)

\* Mutant: compare the completed count with the budget, then run.
ClaimByCompleted(t) ==
  /\ pc[t] = "gate" /\ ~Stopping /\ ~paused /\ mode = "shared"
  /\ IF completed < Budget THEN claimed' = claimed + 1 /\ Goto(t, "iter")
                           ELSE Goto(t, "exit") /\ UNCHANGED claimed
  /\ UNCHANGED <<seen, deaths, active, flags, rdVars, spawned, paused, ctlVars>>
  /\ UNCHANGED <<mode, completed, index>>

\* Past the pause gate a VU of shared-iterations claims its iteration
\* (try_claim_shared_iteration), or leaves if the budget is used up.
ClaimIteration(t) ==
  /\ pc[t] = "gate" /\ ~Stopping /\ ~paused /\ mode = "shared"
  /\ IF claimed < Budget THEN claimed' = claimed + 1 /\ Goto(t, "iter")
                         ELSE Goto(t, "exit") /\ UNCHANGED claimed
  /\ UNCHANGED <<seen, deaths, active, flags, rdVars, spawned, paused, ctlVars>>
  /\ UNCHANGED <<mode, completed, index>>

\* Nothing to claim: a stop, or a VU of per-vu-iterations.
PassFreely(t) ==
  /\ PassGate(t, "iter")
  /\ Stopping \/ mode = "per-vu"
  /\ UNCHANGED iterVars

\* Mutant: the index is compared before it is incremented.
OneMoreIteration(t) == IF mode = "per-vu" /\ index[t] >= Budget THEN "exit" ELSE "top"

\* Where an iteration that ended leaves the VU: out, if it was its last one.
AfterIteration(t) == IF mode = "per-vu" /\ index[t] + 1 >= Budget THEN "exit" ELSE "top"

\* The iteration ran to its end; exec.test.abort() in it stops the run.
EndIteration(t) ==
  /\ pc[t] = "iter"
  /\ stop' \in {stop, TRUE}
  /\ completed' = completed + 1
  /\ index' = [index EXCEPT ![t] = @ + 1]
  /\ Goto(t, AfterIteration(t))
  /\ UNCHANGED <<seen, deaths, active, force, rdVars, spawned, paused, ctlVars>>
  /\ UNCHANGED <<mode, claimed>>

Vu(t) ==
  \/ VuStep(t) /\ UNCHANGED iterVars
  \/ ClaimIteration(t) \/ PassFreely(t) \/ EndIteration(t)

-----------------------------------------------------------------------------

External == (RequestStop \/ RequestForceStop \/ TogglePaused) /\ UNCHANGED iterVars

Ending == RunTail /\ UNCHANGED iterVars

Next ==
  \/ SpawnAll \/ AllJoined \/ MaxDurationReached \/ Ending \/ External
  \/ \E t \in Task : Vu(t)

\* The executor's timers fire; nothing is assumed of the VUs.
Fairness == WF_vars(SpawnAll \/ MaxDurationReached \/ Ending)

Spec == Init /\ [][Next]_vars /\ Fairness

-----------------------------------------------------------------------------
(* Properties.                                                             *)

Running == {t \in Task : pc[t] = "iter"}

\* No iteration is started beyond the budget, however the VUs race for the last
\* one: what ran and what runs was claimed, and the claims fit into the budget.
NoOverrun ==
  /\ mode = "shared" => completed + Cardinality(Running) <= claimed /\ claimed <= Budget
  /\ mode = "per-vu" /\ Budget > 0 =>
       \A t \in Task : index[t] + (IF t \in Running THEN 1 ELSE 0) <= Budget

\* The work of a run in which nothing stops and nobody dies.
Work == IF mode = "shared" THEN (IF Vus = 0 THEN 0 ELSE Budget) ELSE Vus * Budget

\* A run that was neither stopped nor lost a VU has done its work, all of it,
\* when the executor returns.
WorkIsDone == ctl = "done" /\ ~stop /\ deaths = 0 /\ Budget > 0 => completed = Work

\* maxDuration is a cap: the executor returns even if a VU hangs or is paused.
EndsByMaxDuration == <>(ctl = "done")

\* In shared-iterations the survivors make up for a VU that died.
BudgetSelfHeals ==
  ctl = "done" /\ mode = "shared" /\ ~stop /\ deaths < Vus => completed = Budget
=============================================================================
