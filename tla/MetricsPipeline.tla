-------------------------- MODULE MetricsPipeline ---------------------------
(***************************************************************************)
(* The way of a sample through a run: MetricsCollector and its aggregator  *)
(* shards (crates/tropel-metrics/src/collector.rs), the broadcast ring and *)
(* a streaming output (crates/tropel-engine/src/outputs.rs and             *)
(* crates/tropel-report/src), and the end of Engine::run (engine.rs),      *)
(* which must close the stream and ask for the results in the right order. *)
(*                                                                         *)
(* Values, tags and histograms are data: a batch is one sample of every    *)
(* metric with one tag, and an aggregate is how many samples went into it. *)
(* A sample that is not finite is not recorded and is left out.  tokio's   *)
(* channels are external: mpsc is first-in first-out, a broadcast receiver *)
(* that falls behind by more than the ring is told how many it lost, and   *)
(* reads what is left before it learns that the channel is closed.  A task *)
(* may panic anywhere: one that does ends, and its JoinHandle says so.     *)
(***************************************************************************)
EXTENDS Integers, Sequences, FiniteSets, FiniteSetsExt

CONSTANTS
  Recorder,     \* VUs
  Metric,       \* metric names
  Tag,          \* tag sets
  NumShards,    \* SHARD_COUNT
  QueueCap,     \* MAX_PENDING_SAMPLES_PER_SHARD
  MaxSeries,    \* MAX_SERIES, for each shard
  RingCap,      \* SAMPLE_STREAM_CAPACITY
  MaxBatch,     \* MAX_BATCH of an output
  Batches       \* bound: batches one VU records

ASSUME PipelineAssumption ==
  /\ {NumShards, QueueCap, MaxSeries, RingCap, MaxBatch, Batches} \subseteq Nat \ {0}
  /\ IsFiniteSet(Recorder) /\ IsFiniteSet(Metric) /\ IsFiniteSet(Tag)
  /\ Tag # {} /\ "get" \notin Tag /\ Recorder \cap {"collector", "engine"} = {}

Shard == 1..NumShards

VARIABLES
  shardOf,      \* the hash of each metric name
  recorder,     \* each VU: batches left, the shard it sends to next, its tag
  queue,        \* the channel of each shard
  totals,       \* Aggregator.totals, of each shard
  headline,     \* the merged accumulators, of each shard
  series,       \* Aggregator.data: samples in each series, of each shard
  capped,       \* Aggregator.series_dropped, of each shard
  lost,         \* AGGREGATOR_SAMPLES_DROPPED
  ringSenders,  \* who holds a sender of the broadcast ring
  sent,         \* samples sent on the ring
  output,       \* the output task: position, batch, samples given to emit, lag
  stray,        \* history: VUs that still record when the scenarios are joined
  main,         \* where Engine::run is
  answers       \* the results of the shards that have answered

pipeVars == <<shardOf, recorder, queue, totals, headline, series, capped, lost, ringSenders,
              sent, output, stray, main, answers>>
aggVars == <<totals, headline, series, capped>>

NoAnswer == [totals |-> [m \in Metric |-> 0], headline |-> [m \in Metric |-> 0],
             capped |-> 0, given |-> FALSE]
Answer == [totals : [Metric -> Nat], headline : [Metric -> Nat], capped : Nat, given : BOOLEAN]

PipeTypeOK ==
  /\ shardOf \in [Metric -> Shard]
  /\ recorder \in [Recorder -> [left : 0..Batches, next : 0..NumShards, tag : Tag]]
  /\ queue \in [Shard -> Seq(Tag \cup {"get"})]
  /\ totals \in [Shard -> [Metric -> Nat]] /\ headline \in [Shard -> [Metric -> Nat]]
  /\ series \in [Shard -> [Metric \X Tag -> Nat]] /\ capped \in [Shard -> Nat]
  /\ lost \in Nat /\ sent \in Nat /\ ringSenders \subseteq {"collector", "engine"} \cup Recorder
  /\ output \in [pos : Nat, batch : Nat, emitted : Nat, lagged : Nat, open : BOOLEAN,
                 failed : BOOLEAN]
  /\ stray \subseteq Recorder
  /\ main \in {"scenarios", "unsink", "dropTx", "outputs", "ask", "collect", "done"}
  /\ answers \in [Shard -> Answer]

PipeInit ==
  /\ shardOf \in [Metric -> Shard]
  /\ recorder = [v \in Recorder |-> [left |-> Batches, next |-> 0, tag |-> CHOOSE t \in Tag : TRUE]]
  /\ queue = [s \in Shard |-> <<>>]
  /\ totals = [s \in Shard |-> [m \in Metric |-> 0]] /\ headline = totals
  /\ series = [s \in Shard |-> [k \in Metric \X Tag |-> 0]]
  /\ capped = [s \in Shard |-> 0] /\ lost = 0 /\ sent = 0
  /\ ringSenders = {"collector", "engine"}
  /\ output = [pos |-> 0, batch |-> 0, emitted |-> 0, lagged |-> 0, open |-> TRUE,
               failed |-> FALSE]
  /\ stray = {} /\ main = "scenarios" /\ answers = [s \in Shard |-> NoAnswer]

-----------------------------------------------------------------------------
(* The VUs: record_batch.                                                  *)

\* shard_for_key: of the name alone.
ShardForName(m) == shardOf[m]

\* The metrics of a batch that go to shard s.
PartFor(s) == {m \in Metric : ShardForName(m) = s}

\* forward_to_sink: a clone of the collector's sender, taken under the lock ...
CloneSink(v) ==
  /\ recorder[v].left > 0 /\ recorder[v].next = 0
  /\ v \notin ringSenders /\ "collector" \in ringSenders
  /\ ringSenders' = ringSenders \cup {v}
  /\ UNCHANGED <<shardOf, recorder, queue, aggVars, lost, sent, output, stray, main, answers>>

\* ... on which the batch goes out after the unlock, if there was one.
Forward(v) ==
  /\ recorder[v].left > 0 /\ recorder[v].next = 0
  /\ v \in ringSenders \/ "collector" \notin ringSenders
  /\ \E t \in Tag :
       recorder' = [recorder EXCEPT ![v].next = 1, ![v].tag = t]
  /\ sent' = sent + IF v \in ringSenders THEN Cardinality(Metric) ELSE 0
  /\ ringSenders' = ringSenders \ {v}
  /\ UNCHANGED <<shardOf, queue, aggVars, lost, output, stray, main, answers>>

\* The samples try_send drops and counts.
LostBy(s) == IF Len(queue[s]) >= QueueCap THEN Cardinality(PartFor(s)) ELSE 0

\* try_send to the next shard.
TrySend(v) ==
  /\ recorder[v].next > 0
  /\ LET s == recorder[v].next t == recorder[v].tag
         fits == PartFor(s) # {} /\ Len(queue[s]) < QueueCap
     IN /\ queue' = [queue EXCEPT ![s] = IF fits THEN Append(@, t) ELSE @]
        /\ lost' = lost + LostBy(s)
        /\ recorder' = [recorder EXCEPT ![v].next = IF s = NumShards THEN 0 ELSE s + 1,
                                        ![v].left = IF s = NumShards THEN @ - 1 ELSE @]
  /\ UNCHANGED <<shardOf, aggVars, ringSenders, sent, output, stray, main, answers>>

\* The VU stops before its last batch.
Stop(v) ==
  /\ recorder[v].left > 0 /\ recorder[v].next = 0 /\ v \notin ringSenders
  /\ recorder' = [recorder EXCEPT ![v].left = 0]
  /\ UNCHANGED <<shardOf, queue, aggVars, lost, ringSenders, sent, output, stray, main, answers>>

-----------------------------------------------------------------------------
(* The aggregator of shard s.                                              *)

Present(s) == {k \in Metric \X Tag : series[s][k] > 0}

\* Mutant: a sample past the cap is forgotten altogether.
HeadlineOfStored(fresh, room, m) == IF fresh = {} \/ room THEN 1 ELSE 0

\* record_headline_accumulators: for every sample, stored or not.
HeadlineOf(fresh, room, m) == 1

\* Aggregator::record on each sample of a batch: the totals first, then its
\* series if there is one or room for one, and the headline in any case.
RecordBatch(s, t) ==
  LET part == PartFor(s)
      fresh == {m \in part : <<m, t>> \notin Present(s)}
      room == Cardinality(Present(s)) + Cardinality(fresh) <= MaxSeries
      stored == IF room THEN part
                ELSE (part \ fresh) \cup
                     CHOOSE x \in SUBSET fresh :
                       Cardinality(x) = MaxSeries - Cardinality(Present(s))
  IN /\ totals' = [totals EXCEPT ![s] = [m \in Metric |-> @[m] + IF m \in part THEN 1 ELSE 0]]
     /\ headline' = [headline EXCEPT ![s] =
          [m \in Metric |-> @[m] + IF m \in part THEN HeadlineOf(fresh, room, m) ELSE 0]]
     /\ series' = [series EXCEPT ![s] =
          [k \in Metric \X Tag |-> @[k] + IF k[2] = t /\ k[1] \in stored THEN 1 ELSE 0]]
     /\ capped' = [capped EXCEPT ![s] = @ + Cardinality(part \ stored)]

Aggregate(s) ==
  /\ queue[s] # <<>>
  /\ queue' = [queue EXCEPT ![s] = Tail(@)]
  /\ IF Head(queue[s]) = "get"
       THEN /\ answers' = [answers EXCEPT ![s] =
                 [totals |-> totals[s], headline |-> headline[s], capped |-> capped[s],
                  given |-> TRUE]]
            /\ UNCHANGED aggVars
       ELSE RecordBatch(s, Head(queue[s])) /\ UNCHANGED answers
  /\ UNCHANGED <<shardOf, recorder, lost, ringSenders, sent, output, stray, main>>

-----------------------------------------------------------------------------
(* A streaming output.                                                     *)

\* recv: a sample, or the number of samples the ring has overwritten.
Receive ==
  /\ output.open /\ output.pos < sent
  /\ output' =
       IF sent - output.pos > RingCap
         THEN [output EXCEPT !.lagged = @ + (sent - RingCap - output.pos), !.pos = sent - RingCap]
         ELSE IF output.batch + 1 >= MaxBatch
           THEN [output EXCEPT !.pos = @ + 1, !.emitted = @ + output.batch + 1, !.batch = 0]
           ELSE [output EXCEPT !.pos = @ + 1, !.batch = @ + 1]
  /\ UNCHANGED <<shardOf, recorder, queue, aggVars, lost, ringSenders, sent, stray, main, answers>>

\* The flush interval.
FlushTick ==
  /\ output.open /\ output.batch > 0
  /\ output' = [output EXCEPT !.emitted = @ + output.batch, !.batch = 0]
  /\ UNCHANGED <<shardOf, recorder, queue, aggVars, lost, ringSenders, sent, stray, main, answers>>

\* Mutant: the stream's end ends the output.
CloseOutputNow ==
  /\ output.open /\ output.pos = sent /\ ringSenders = {}
  /\ output' = [output EXCEPT !.open = FALSE]
  /\ UNCHANGED <<shardOf, recorder, queue, aggVars, lost, ringSenders, sent, stray, main, answers>>

\* Closed: the last batch is emitted, and the task ends.
CloseOutput ==
  /\ output.open /\ output.pos = sent /\ ringSenders = {}
  /\ output' = [output EXCEPT !.emitted = @ + output.batch, !.batch = 0, !.open = FALSE]
  /\ UNCHANGED <<shardOf, recorder, queue, aggVars, lost, ringSenders, sent, stray, main, answers>>

\* The task panics, or cannot set its client up and returns: what it holds and
\* what comes later is lost, and nobody counts it.
OutputFails ==
  /\ output.open
  /\ output' = [output EXCEPT !.open = FALSE, !.failed = TRUE]
  /\ UNCHANGED <<shardOf, recorder, queue, aggVars, lost, ringSenders, sent, stray, main, answers>>

-----------------------------------------------------------------------------
(* The end of Engine::run.                                                 *)

\* Every scenario task has ended.  Its VUs record no more (DoneIsQuiet), unless
\* they were aborted inside a call, or the task panicked and left them.
JoinScenarios ==
  /\ main = "scenarios" /\ main' = "unsink"
  /\ stray' = {v \in Recorder : recorder[v].left > 0}
  /\ UNCHANGED <<shardOf, recorder, queue, aggVars, lost, ringSenders, sent, output, answers>>

\* set_sample_sink(None)
Unsink ==
  /\ main = "unsink" /\ main' = "dropTx"
  /\ ringSenders' = ringSenders \ {"collector"}
  /\ UNCHANGED <<shardOf, recorder, queue, aggVars, lost, sent, output, stray, answers>>

\* Mutant: the sender lives until the function returns.
KeepTx ==
  /\ main = "dropTx" /\ main' = "outputs"
  /\ UNCHANGED <<shardOf, recorder, queue, aggVars, lost, ringSenders, sent, output, stray, answers>>

\* drop(sample_tx)
DropTx ==
  /\ main = "dropTx" /\ main' = "outputs"
  /\ ringSenders' = ringSenders \ {"engine"}
  /\ UNCHANGED <<shardOf, recorder, queue, aggVars, lost, sent, output, stray, answers>>

\* The output has ended; that it panicked is logged.
AwaitOutputs ==
  /\ main = "outputs" /\ ~output.open
  /\ main' = "ask"
  /\ UNCHANGED <<shardOf, recorder, queue, aggVars, lost, ringSenders, sent, output, stray, answers>>

\* results(): a request to each shard, in order, waiting for room ...
AskShard(s) ==
  /\ main = "ask" /\ Len(queue[s]) < QueueCap
  /\ ~answers[s].given /\ \A i \in DOMAIN queue[s] : queue[s][i] # "get"
  /\ queue' = [queue EXCEPT ![s] = Append(@, "get")]
  /\ main' = IF s = NumShards THEN "collect" ELSE "ask"
  /\ \A r \in 1..(s - 1) : answers[r].given \/ \E i \in DOMAIN queue[r] : queue[r][i] = "get"
  /\ UNCHANGED <<shardOf, recorder, aggVars, lost, ringSenders, sent, output, stray, answers>>

\* ... and every answer awaited.
Collect ==
  /\ main = "collect" /\ \A s \in Shard : answers[s].given
  /\ main' = "done"
  /\ UNCHANGED <<shardOf, recorder, queue, aggVars, lost, ringSenders, sent, output, stray, answers>>

MainStep ==
  JoinScenarios \/ Unsink \/ DropTx \/ AwaitOutputs \/ (\E s \in Shard : AskShard(s)) \/ Collect

PipeNext ==
  \/ \E v \in Recorder : CloneSink(v) \/ Forward(v) \/ TrySend(v) \/ Stop(v)
  \/ \E s \in Shard : Aggregate(s)
  \/ Receive \/ FlushTick \/ CloseOutput \/ OutputFails
  \/ MainStep

\* Every task runs, and a VU does not wait between the clone and the send.  That
\* the scenarios end is shown elsewhere (StopEndsRun, EndsByMaxDuration).
PipeFairness ==
  /\ \A v \in Recorder : WF_pipeVars(Forward(v))
  /\ \A s \in Shard : WF_pipeVars(Aggregate(s))
  /\ WF_pipeVars(Receive \/ CloseOutput) /\ WF_pipeVars(MainStep)

PipeSpec == PipeInit /\ [][PipeNext]_pipeVars /\ PipeFairness

-----------------------------------------------------------------------------
(* merge_results, and what it promises.                                    *)

\* Counters are summed over the shards ...
MergedTotal(m) == SumFunction([s \in Shard |-> answers[s].totals[m]])

\* ... of a trend the shard with the larger count wins.
MergedHeadline(m) == Max({answers[s].headline[m] : s \in Shard})

MergedCapped == SumFunction([s \in Shard |-> answers[s].capped])

\* MetricsResult::is_unverified, but for the dropped iterations (ArrivalRate).
Unverified == MergedCapped > 0 \/ output.lagged > 0 \/ lost > 0

\* The results of a run are whole: the headline of every metric covers the
\* samples its total counts, even if VUs still record.  If none does, what is
\* missing was counted as dropped, and a run that is not marked unverified has
\* every sample in its totals, in its series and in the stream of an output that
\* did not fail.
ResultsAreWhole ==
  main = "done" =>
    /\ \A m \in Metric : MergedHeadline(m) = MergedTotal(m)
    /\ stray = {} =>
         /\ SumFunction([m \in Metric |-> MergedTotal(m)]) + lost = sent
         /\ ~Unverified =>
              /\ SumFunction([s \in Shard |-> SumFunction(series[s])]) = sent
              /\ ~output.failed => output.emitted = sent

\* An output that did not fail has given every sample of the ring to its sink, or
\* counted it as lost, by the time the results are read, although VUs may still
\* record and hold senders of the ring: no lag is found after the verdict.
StreamAccounted ==
  main \in {"ask", "collect", "done"} /\ ~output.failed =>
    output.emitted + output.lagged = sent /\ output.batch = 0

\* Once its scenarios have ended the run does: the outputs see the end of the
\* stream, and the shards answer.
RunFinishes == main = "unsink" ~> main = "done"
=============================================================================
