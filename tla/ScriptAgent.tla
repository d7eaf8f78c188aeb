---------------------------- MODULE ScriptAgent -----------------------------
(***************************************************************************)
(* The host-callback channel of the local agent                            *)
(* (crates/tropel-engine/src/agent.rs): a script started by POST /script   *)
(* calls back into its caller in the middle of its run.  The script blocks *)
(* on a channel; the caller long-polls /script/callback/next for calls and *)
(* answers on /script/callback/reply, each on a connection of its own.     *)
(*                                                                         *)
(* One step is one lock section, one store or one wake-up.  The caller is  *)
(* external: it reuses run ids, polls whenever it likes, answers late,     *)
(* twice or never, and answers calls it was never given.  tokio's Notify   *)
(* is external: notify_waiters wakes every waiter created before it, and   *)
(* stores nothing for a later one.                                         *)
(***************************************************************************)
EXTENDS Integers, Sequences, FiniteSets

CONSTANTS
  Script,      \* POST /script requests that carry a runId
  RunId,       \* the run ids callers choose
  Poller,      \* connections on /script/callback/next
  Replier,     \* connections on /script/callback/reply
  MaxCalls,    \* bound: host calls of one script
  NoScript     \* no entry in AgentState.runs

ASSUME ScriptAssumption ==
  MaxCalls \in Nat /\ NoScript \notin Script /\ IsFiniteSet(Replier)

VARIABLES
  runs,        \* AgentState.runs: run id -> script
  script,      \* where each script is
  runId,       \* the run id of each script
  nextId,      \* RunCallbacks.next_id
  replies,     \* RunCallbacks.replies: calls with a sender
  pending,     \* RunCallbacks.pending
  ended,       \* RunCallbacks.done
  channel,     \* answers sent and not received, by call
  poll,        \* each poll: where it is, whose callbacks it holds, its waiter
  reply,       \* each reply: where it is, the callbacks and the call it names
  delivered    \* history: replies to each call that were told "delivered"

scriptVars == <<runs, script, runId, nextId, replies, pending, ended, channel>>
agentVars == <<runs, script, runId, nextId, replies, pending, ended, channel, poll,
               reply, delivered>>

Call == 0..(MaxCalls - 1)
ScriptStep == {"new", "run", "insert", "enqueue", "notify", "wait", "forget", "finish",
               "wake", "deregister", "over"}

AgentTypeOK ==
  /\ runs \in [RunId -> Script \cup {NoScript}] /\ script \in [Script -> ScriptStep]
  /\ runId \in [Script -> RunId] /\ nextId \in [Script -> 0..MaxCalls]
  /\ replies \in [Script -> SUBSET Call]
  /\ pending \in [Script -> Seq(Call)] /\ ended \in [Script -> BOOLEAN]
  /\ channel \in [Script -> SUBSET Call]
  /\ poll \in [Poller -> [at : {"idle", "arm", "check", "flag", "park"},
                          of : Script \cup {NoScript}, woken : BOOLEAN]]
  /\ reply \in [Replier -> [at : {"idle", "take", "send"},
                            of : Script \cup {NoScript}, call : Call \cup {-1}]]
  /\ delivered \in [Script -> [Call -> Nat]]

NoPoll == [at |-> "idle", of |-> NoScript, woken |-> FALSE]
NoReply == [at |-> "idle", of |-> NoScript, call |-> -1]

AgentInit ==
  /\ runs = [i \in RunId |-> NoScript]
  /\ script = [s \in Script |-> "new"]
  /\ runId \in [Script -> RunId]
  /\ nextId = [s \in Script |-> 0] /\ replies = [s \in Script |-> {}]
  /\ pending = [s \in Script |-> <<>>] /\ ended = [s \in Script |-> FALSE]
  /\ channel = [s \in Script |-> {}]
  /\ poll = [p \in Poller |-> NoPoll] /\ reply = [r \in Replier |-> NoReply]
  /\ delivered = [s \in Script |-> [c \in Call |-> 0]]

-----------------------------------------------------------------------------
(* POST /script.                                                           *)

ScriptAt(s, from, to) == script[s] = from /\ script' = [script EXCEPT ![s] = to]
ThisCall(s) == nextId[s] - 1

\* Mutant: a poll has a waiter only once it parks.
WakenedParked(s) == [p \in Poller |-> IF poll[p].of = s /\ poll[p].at = "park"
                                        THEN [poll[p] EXCEPT !.woken = TRUE] ELSE poll[p]]

\* notify_waiters
Wakened(s) == [p \in Poller |-> IF poll[p].of = s /\ poll[p].at # "arm"
                                  THEN [poll[p] EXCEPT !.woken = TRUE] ELSE poll[p]]

\* A run id that is in use is taken over.
Register(s) ==
  /\ ScriptAt(s, "new", "run")
  /\ runs' = [runs EXCEPT ![runId[s]] = s]
  /\ UNCHANGED <<runId, nextId, replies, pending, ended, channel, poll, reply, delivered>>

\* The script calls the host function.
CallHost(s) ==
  /\ nextId[s] < MaxCalls /\ ScriptAt(s, "run", "insert")
  /\ nextId' = [nextId EXCEPT ![s] = @ + 1]
  /\ UNCHANGED <<runs, runId, replies, pending, ended, channel, poll, reply, delivered>>

InsertSender(s) ==
  /\ ScriptAt(s, "insert", "enqueue")
  /\ replies' = [replies EXCEPT ![s] = @ \cup {ThisCall(s)}]
  /\ UNCHANGED <<runs, runId, nextId, pending, ended, channel, poll, reply, delivered>>

Enqueue(s) ==
  /\ ScriptAt(s, "enqueue", "notify")
  /\ pending' = [pending EXCEPT ![s] = Append(@, ThisCall(s))]
  /\ UNCHANGED <<runs, runId, nextId, replies, ended, channel, poll, reply, delivered>>

NotifyCall(s) ==
  /\ ScriptAt(s, "notify", "wait")
  /\ poll' = Wakened(s)
  /\ UNCHANGED <<runs, runId, nextId, replies, pending, ended, channel, reply, delivered>>

\* recv_timeout: the answer.
ReceiveAnswer(s) ==
  /\ ThisCall(s) \in channel[s] /\ ScriptAt(s, "wait", "run")
  /\ channel' = [channel EXCEPT ![s] = {}]
  /\ UNCHANGED <<runs, runId, nextId, replies, pending, ended, poll, reply, delivered>>

\* Mutant: recv without a bound, so that only an answer ends the wait.
WaitForAnswer(s) ==
  /\ ThisCall(s) \in channel[s] /\ ScriptAt(s, "wait", "forget")
  /\ UNCHANGED <<runs, runId, nextId, replies, pending, ended, channel, poll, reply, delivered>>

\* recv_timeout: thirty seconds without one.
CallTimesOut(s) ==
  /\ ThisCall(s) \notin channel[s] /\ ScriptAt(s, "wait", "forget")
  /\ UNCHANGED <<runs, runId, nextId, replies, pending, ended, channel, poll, reply, delivered>>

\* The sender goes; the call stays in the queue.
ForgetSender(s) ==
  /\ ScriptAt(s, "forget", "run")
  /\ replies' = [replies EXCEPT ![s] = @ \ {ThisCall(s)}]
  /\ UNCHANGED <<runs, runId, nextId, pending, ended, channel, poll, reply, delivered>>

\* The script returns or throws.
ScriptReturns(s) ==
  /\ ScriptAt(s, "run", "finish")
  /\ UNCHANGED <<runs, runId, nextId, replies, pending, ended, channel, poll, reply, delivered>>

\* RunCallbacks::finish: the store, then the wake-up.
StoreDone(s) ==
  /\ ScriptAt(s, "finish", "wake")
  /\ ended' = [ended EXCEPT ![s] = TRUE]
  /\ UNCHANGED <<runs, runId, nextId, replies, pending, channel, poll, reply, delivered>>

WakePollers(s) ==
  /\ ScriptAt(s, "wake", "deregister")
  /\ poll' = Wakened(s)
  /\ UNCHANGED <<runs, runId, nextId, replies, pending, ended, channel, reply, delivered>>

\* Whatever is registered under the id goes.
Deregister(s) ==
  /\ ScriptAt(s, "deregister", "over")
  /\ runs' = [runs EXCEPT ![runId[s]] = NoScript]
  /\ UNCHANGED <<runId, nextId, replies, pending, ended, channel, poll, reply, delivered>>

ScriptStepOf(s) ==
  \/ Register(s) \/ CallHost(s) \/ InsertSender(s) \/ Enqueue(s) \/ NotifyCall(s)
  \/ ReceiveAnswer(s) \/ CallTimesOut(s) \/ ForgetSender(s)
  \/ ScriptReturns(s) \/ StoreDone(s) \/ WakePollers(s) \/ Deregister(s)

-----------------------------------------------------------------------------
(* /script/callback/next.                                                  *)

\* The run is looked up; an unknown one is answered 204.
PollNext(p) ==
  /\ poll[p].at = "idle"
  /\ \E i \in RunId :
       /\ runs[i] # NoScript
       /\ poll' = [poll EXCEPT ![p] = [at |-> "arm", of |-> runs[i], woken |-> FALSE]]
  /\ UNCHANGED <<scriptVars, reply, delivered>>

\* The waiter is created before the queue is read.
ArmWaiter(p) ==
  /\ poll[p].at = "arm"
  /\ poll' = [poll EXCEPT ![p] = [at |-> "check", of |-> @.of, woken |-> FALSE]]
  /\ UNCHANGED <<scriptVars, reply, delivered>>

\* A call is popped and answered 200 (the socket may lose it).
CheckQueue(p) ==
  /\ poll[p].at = "check"
  /\ LET s == poll[p].of IN
       IF pending[s] # <<>>
         THEN /\ pending' = [pending EXCEPT ![s] = Tail(@)]
              /\ poll' = [poll EXCEPT ![p] = NoPoll]
         ELSE poll' = [poll EXCEPT ![p].at = "flag"] /\ UNCHANGED pending
  /\ UNCHANGED <<runs, script, runId, nextId, replies, ended, channel, reply, delivered>>

\* A run that is done is answered 204; else the poll parks.
CheckDone(p) ==
  /\ poll[p].at = "flag"
  /\ poll' = [poll EXCEPT ![p] = IF ended[@.of] THEN NoPoll ELSE [@ EXCEPT !.at = "park"]]
  /\ UNCHANGED <<scriptVars, reply, delivered>>

PollWakes(p) ==
  /\ poll[p].at = "park" /\ poll[p].woken
  /\ poll' = [poll EXCEPT ![p].at = "arm"]
  /\ UNCHANGED <<scriptVars, reply, delivered>>

\* Twenty seconds: the queue is read once more on the way out.
PollAgesOut(p) ==
  /\ poll[p].at = "park" /\ ~poll[p].woken
  /\ LET s == poll[p].of IN
       /\ pending' = [pending EXCEPT ![s] = IF @ = <<>> THEN @ ELSE Tail(@)]
       /\ poll' = [poll EXCEPT ![p] = NoPoll]
  /\ UNCHANGED <<runs, script, runId, nextId, replies, ended, channel, reply, delivered>>

-----------------------------------------------------------------------------
(* /script/callback/reply.                                                 *)

\* The run is looked up; an unknown one is a 404.
PostReply(r) ==
  /\ reply[r].at = "idle"
  /\ \E i \in RunId, c \in Call :
       /\ runs[i] # NoScript
       /\ reply' = [reply EXCEPT ![r] = [at |-> "take", of |-> runs[i], call |-> c]]
  /\ UNCHANGED <<scriptVars, poll, delivered>>

\* Mutant: the sender stays for the next reply.
PeekSender(r) ==
  /\ reply[r].at = "take"
  /\ reply' = [reply EXCEPT ![r] = IF @.call \in replies[@.of]
                                     THEN [@ EXCEPT !.at = "send"] ELSE NoReply]
  /\ UNCHANGED <<scriptVars, poll, delivered>>

\* The sender is taken out; without one the answer is a 404.
TakeSender(r) ==
  /\ reply[r].at = "take"
  /\ LET s == reply[r].of c == reply[r].call IN
       /\ replies' = [replies EXCEPT ![s] = @ \ {c}]
       /\ reply' = [reply EXCEPT ![r] = IF c \in replies[s] THEN [@ EXCEPT !.at = "send"]
                                                            ELSE NoReply]
  /\ UNCHANGED <<runs, script, runId, nextId, pending, ended, channel, poll, delivered>>

\* tx.send, whose error is ignored: after a timeout the receiver is gone.
SendAnswer(r) ==
  /\ reply[r].at = "send"
  /\ LET s == reply[r].of c == reply[r].call
         heard == script[s] \in {"enqueue", "notify", "wait"} /\ ThisCall(s) = c IN
       /\ channel' = [channel EXCEPT ![s] = IF heard THEN @ \cup {c} ELSE @]
       /\ delivered' = [delivered EXCEPT ![s][c] = @ + 1]
       /\ reply' = [reply EXCEPT ![r] = NoReply]
  /\ UNCHANGED <<runs, script, runId, nextId, replies, pending, ended, poll>>

-----------------------------------------------------------------------------

PollStepOf(p) == ArmWaiter(p) \/ CheckQueue(p) \/ CheckDone(p) \/ PollWakes(p)

AgentNext ==
  \/ \E s \in Script : ScriptStepOf(s)
  \/ \E p \in Poller : PollNext(p) \/ PollStepOf(p) \/ PollAgesOut(p)
  \/ \E r \in Replier : PostReply(r) \/ TakeSender(r) \/ SendAnswer(r)

\* Tasks run; the deadline of a poll is left without fairness, so that it
\* hides no lost wake-up.
AgentFairness ==
  /\ \A s \in Script : WF_agentVars(ScriptStepOf(s))
  /\ \A p \in Poller : WF_agentVars(PollStepOf(p))

AgentSpec == AgentInit /\ [][AgentNext]_agentVars /\ AgentFairness

-----------------------------------------------------------------------------
(* Properties.                                                             *)

\* No wake-up is lost: a poll that sleeps unwoken has nothing to do, unless the
\* script is about to wake it.  Otherwise the script would wait out its thirty
\* seconds with its call in the queue and the caller asking for it.
NoLostWakeup ==
  \A p \in Poller : LET s == poll[p].of IN
    poll[p].at = "park" /\ ~poll[p].woken =>
      /\ pending[s] # <<>> => script[s] = "notify"
      /\ ended[s] => script[s] = "wake"

\* One right to answer each call: the sender, a reply that holds it and an
\* answer already given exclude one another.
OneAnswer ==
  \A s \in Script, c \in Call :
    delivered[s][c] + Cardinality({r \in Replier : reply[r] = [at |-> "send", of |-> s,
                                                               call |-> c]})
      + (IF c \in replies[s] THEN 1 ELSE 0) <= 1

\* A sender is that of the call the script is in, which it has not left yet.
SendersLive ==
  \A s \in Script : replies[s] # {} =>
    /\ replies[s] = {ThisCall(s)}
    /\ script[s] \in {"enqueue", "notify", "wait", "forget"}

\* A call is answered "delivered" once at most, however many replies race for
\* its sender and whenever the script gives the call up, and a script that goes
\* on leaves no sender behind, so that a later reply to a call that timed out is
\* a 404.  (A reply that takes the sender before the script has forgotten it is
\* told "delivered" although nobody hears it.)
DeliveredOnce == OneAnswer /\ SendersLive

\* A script ends whatever its caller does, and the polls that hold its
\* callbacks are released by its end, without waiting for their deadline.
ScriptEnds ==
  /\ \A s \in Script : script[s] # "new" ~> script[s] = "over"
  /\ \A p \in Poller : poll[p].at # "idle" ~> poll[p].at = "idle"
=============================================================================
