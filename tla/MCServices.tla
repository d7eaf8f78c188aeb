----------------------------- MODULE MCServices -----------------------------
(***************************************************************************)
(* What runs a VU, one part at a time: the worker pool, the scenario       *)
(* runner and the script agent.  They share no state, so an interleaving   *)
(* of two of them shows nothing that each alone does not: `subject` picks  *)
(* the one that runs, and the others stay as they begin.  The agent's      *)
(* polls and its replies share no state either (a poll writes the queue of *)
(* calls and its waiter, which no script and no reply reads, and a call    *)
(* may time out without replies), so each kind runs with the scripts alone.*)
(***************************************************************************)
EXTENDS WorkerPool, ScenarioRunner, ScriptAgent

VARIABLE subject

vars == <<workerVars, runnerVars, agentVars, subject>>

ServicesTypeOK == WorkerTypeOK /\ RunnerTypeOK /\ AgentTypeOK

\* An HTTP request with scripts, a test alone, and a request to a protocol.
ThreeItems ==
  <<[request |-> "http", pre |-> 1, test |-> 2], [request |-> "none", pre |-> 0, test |-> 1],
    [request |-> "protocol", pre |-> 1, test |-> 0]>>

Init ==
  /\ subject \in {"pool", "runner", "polls", "replies"}
  /\ WorkerInit /\ (subject # "pool" => busy = <<>>)
  /\ RunnerInit
  /\ AgentInit /\ (subject \notin {"polls", "replies"} => runId = [s \in Script |-> CHOOSE i \in RunId : TRUE])

Pool(A) == subject = "pool" /\ A /\ UNCHANGED <<runnerVars, agentVars, subject>>
Runner(A) == subject = "runner" /\ A /\ UNCHANGED <<workerVars, agentVars, subject>>
Agent(A) ==
  /\ \/ subject = "polls" /\ A /\ UNCHANGED reply
     \/ subject = "replies" /\ A /\ UNCHANGED poll
  /\ UNCHANGED <<workerVars, runnerVars, subject>>

Next == Pool(WorkerNext) \/ Runner(RunnerNext) \/ Agent(AgentNext)

\* The fairness of WorkerSpec, RunnerSpec and AgentSpec, for the part that runs.
Fairness ==
  /\ \A v \in Vu : WF_vars(Pool(Acquire(v)))
  /\ WF_vars(Pool(DropStep))
  /\ WF_vars(Runner(WalkStep))
  /\ \A s \in Script : WF_vars(Agent(ScriptStepOf(s)))
  /\ \A p \in Poller : WF_vars(Agent(PollStepOf(p)))

Spec == Init /\ [][Next]_vars /\ Fairness
=============================================================================
