----------------------------- MODULE MCTraffic ------------------------------
(***************************************************************************)
(* The requests of a run and what is measured of them, one part at a time: *)
(* the rps limiter, the HTTP client, the metrics pipeline, the arrival     *)
(* stripes of the nodes of a distributed run, and its controller and       *)
(* agents.  They share no state: the controller sees the work of a node    *)
(* only as the snapshot that the pipeline's results make.  `subject` picks *)
(* the one that runs, and the others stay as they begin.                   *)
(***************************************************************************)
EXTENDS RpsLimiter, HttpClient, MetricsPipeline, ArrivalStripes, Distributed

VARIABLE subject

vars == <<rpsVars, httpVars, pipeVars, stripeVars, distVars, subject>>

TrafficTypeOK == RpsTypeOK /\ HttpTypeOK /\ PipeTypeOK /\ StripeTypeOK /\ DistTypeOK

Init ==
  /\ subject \in {"rps", "http", "pipeline", "stripes", "controller"}
  /\ RpsInit
  /\ HttpInit /\ (subject # "http" => cacheMode = "ttl")
  /\ PipeInit /\ (subject # "pipeline" => shardOf = [m \in Metric |-> 1])
  /\ StripeInit /\ (subject # "stripes" => boundaries = <<<<0, 1>>, <<1, 1>>>>)
  /\ DistInit

Rps(A) ==
  subject = "rps" /\ A /\ UNCHANGED <<httpVars, pipeVars, stripeVars, distVars, subject>>
Http(A) ==
  subject = "http" /\ A /\ UNCHANGED <<rpsVars, pipeVars, stripeVars, distVars, subject>>
Pipeline(A) ==
  subject = "pipeline" /\ A /\ UNCHANGED <<rpsVars, httpVars, stripeVars, distVars, subject>>
Nodes(A) ==
  subject = "stripes" /\ A /\ UNCHANGED <<rpsVars, httpVars, pipeVars, distVars, subject>>
Controller(A) ==
  subject = "controller" /\ A /\ UNCHANGED <<rpsVars, httpVars, pipeVars, stripeVars, subject>>

Next ==
  \/ Rps(RpsNext) \/ Http(HttpNext) \/ Pipeline(PipeNext)
  \/ Nodes(StripeNext) \/ Controller(DistNext)

\* PipeFairness and DistFairness, for the part that runs.
Fairness ==
  /\ \A v \in Recorder : WF_vars(Pipeline(Forward(v)))
  /\ \A s \in Shard : WF_vars(Pipeline(Aggregate(s)))
  /\ WF_vars(Pipeline(Receive \/ CloseOutput)) /\ WF_vars(Pipeline(MainStep))
  /\ WF_vars(Controller(Join))
  /\ \A i \in Task : WF_vars(Controller(TimeOut(i)))

Spec == Init /\ [][Next]_vars /\ Fairness

\* The controller returns, if no write of an assignment lasts for ever: a peer
\* that connects and says nothing, or nothing more, is given up.
ControllerEnds == subject = "controller" => ControllerReturns
=============================================================================
