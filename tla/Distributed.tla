---------------------------- MODULE Distributed -----------------------------
(***************************************************************************)
(* A distributed run (crates/tropel-distributed): run_controller accepts   *)
(* one connection for each segment, hands out the segments, and merges the *)
(* agents' final snapshots; run_agent connects, authenticates, runs its    *)
(* segment and ships what it measured.                                     *)
(*                                                                         *)
(* Frames of one connection arrive in order; a peer may be slow, fall      *)
(* silent or die at any point, and what it wrote and the controller has    *)
(* not read may die with it.  A peer that is no agent of this run has a    *)
(* wrong token.  A snapshot is the number of iterations it counts, and the *)
(* job one of shared iterations, of which each engine does its share or,   *)
(* if it is cut short, less.                                               *)
(***************************************************************************)
EXTENDS Segments

CONSTANTS
  Peer,          \* processes that connect to the controller
  NumAgents,     \* --agents
  Iterations,    \* the iteration budgets to try
  TokenHolders,  \* the sets of peers that may hold the token
  MaxProgress,   \* capacity of the agent's progress channel (16 in the code)
  MaxFrames,     \* bound: unread frames before a progress write blocks
  NoPeer

ASSUME DistAssumption ==
  /\ NumAgents \in Nat \ {0} /\ Iterations \subseteq Nat /\ TokenHolders \subseteq SUBSET Peer
  /\ MaxProgress \in Nat /\ MaxFrames \in Nat
  /\ NoPeer \notin Peer

Task == 1..NumAgents

VARIABLES
  total,         \* the job's iterations
  member,        \* the peers that hold the token
  handler,       \* the controller's task for each segment
  link,          \* the connection each task has accepted
  snapshots,     \* what each task has returned
  joined,        \* how many tasks run_controller has awaited
  outcome,       \* what run_controller returns
  agent,         \* where each peer is in run_agent
  segment,       \* the segment each peer was assigned
  inbox,         \* frames the peer wrote and the controller has not read
  engine,        \* the peer's engine task
  work,          \* the iterations each peer's engine has done
  senders,       \* who holds the sending half of the progress channel
  progress       \* snapshots in the progress channel

ctlVars == <<handler, link, snapshots, joined, outcome>>
peerVars == <<agent, segment, inbox, engine, work, senders, progress>>
distVars == <<total, member, handler, link, snapshots, joined, outcome, agent, segment,
              inbox, engine, work, senders, progress>>

\* The iterations of the segment that p was assigned.
ShareOf(p) == Share(total, EqualSplit(NumAgents), segment[p])

Frame == [kind : {"hello", "progress", "final"}, work : Nat]
Hello == [kind |-> "hello", work |-> 0]

DistTypeOK ==
  /\ total \in Iterations /\ member \subseteq Peer
  /\ handler \in [Task -> {"accept", "hello", "assign", "frames", "ok", "err"}]
  /\ link \in [Task -> Peer \cup {NoPeer}]
  /\ snapshots \in [Task -> Nat] /\ joined \in 0..NumAgents
  /\ outcome \in {"none", "ok", "err"}
  /\ agent \in [Peer -> {"connect", "connected", "await", "run", "ok", "err"}]
  /\ segment \in [Peer -> 0..NumAgents]
  /\ inbox \in [Peer -> Seq(Frame)]
  /\ engine \in [Peer -> {"off", "running", "done", "failed"}]
  /\ work \in [Peer -> Nat]
  /\ senders \in [Peer -> SUBSET {"engine", "ticker"}]
  /\ progress \in [Peer -> 0..MaxProgress]

DistInit ==
  /\ total \in Iterations /\ member \in TokenHolders
  /\ handler = [i \in Task |-> "accept"] /\ link = [i \in Task |-> NoPeer]
  /\ snapshots = [i \in Task |-> 0] /\ joined = 0 /\ outcome = "none"
  /\ agent = [p \in Peer |-> "connect"] /\ segment = [p \in Peer |-> 0]
  /\ inbox = [p \in Peer |-> <<>>] /\ engine = [p \in Peer |-> "off"]
  /\ work = [p \in Peer |-> 0] /\ senders = [p \in Peer |-> {}]
  /\ progress = [p \in Peer |-> 0]

\* The controller's half of p's connection is open: it waits in the accept
\* queue, or the task that took it is still at work.
OpenTo(p) ==
  /\ outcome = "none"
  /\ \A i \in Task : link[i] = p => handler[i] \in {"hello", "assign", "frames"}

-----------------------------------------------------------------------------
(* run_agent.                                                              *)

\* connect_with_retry: attempts go on until the listener answers ...
ReachController(p) ==
  /\ agent[p] = "connect" /\ outcome = "none"
  /\ agent' = [agent EXCEPT ![p] = "connected"]
  /\ UNCHANGED <<total, member, ctlVars, segment, inbox, engine, work, senders, progress>>

\* ... or the five minutes are over.
GiveUp(p) ==
  /\ agent[p] = "connect"
  /\ agent' = [agent EXCEPT ![p] = "err"]
  /\ UNCHANGED <<total, member, ctlVars, segment, inbox, engine, work, senders, progress>>

SendHello(p) ==
  /\ agent[p] = "connected"
  /\ agent' = [agent EXCEPT ![p] = "await"]
  /\ inbox' = [inbox EXCEPT ![p] = IF OpenTo(p) THEN Append(@, Hello) ELSE @]
  /\ UNCHANGED <<total, member, ctlVars, segment, engine, work, senders, progress>>

\* The assignment is read and its token checked, and the engine starts, with
\* its periodic snapshot task; a closed connection is an error.
ReadAssign(p) ==
  /\ agent[p] = "await" /\ (segment[p] # 0 \/ ~OpenTo(p))
  /\ IF segment[p] # 0 /\ p \in member
       THEN /\ agent' = [agent EXCEPT ![p] = "run"]
            /\ engine' = [engine EXCEPT ![p] = "running"]
            /\ senders' = [senders EXCEPT ![p] = {"engine", "ticker"}]
       ELSE /\ agent' = [agent EXCEPT ![p] = "err"]
            /\ UNCHANGED <<engine, senders>>
  /\ UNCHANGED <<total, member, ctlVars, segment, inbox, work, progress>>

\* An iteration of the segment's share is done and counted.
Iterate(p) ==
  /\ agent[p] = "run" /\ engine[p] = "running" /\ work[p] < ShareOf(p)
  /\ work' = [work EXCEPT ![p] = @ + 1]
  /\ UNCHANGED <<total, member, ctlVars, agent, segment, inbox, engine, senders, progress>>

\* The periodic task takes a snapshot, and goes on after the engine is done.
TakeSnapshot(p) ==
  /\ agent[p] = "run" /\ "ticker" \in senders[p] /\ progress[p] < MaxProgress
  /\ progress' = [progress EXCEPT ![p] = @ + 1]
  /\ UNCHANGED <<total, member, ctlVars, agent, segment, inbox, engine, work, senders>>

\* Mutant: the periodic task ends with the run it reports on.
EngineEndsAll(p) ==
  /\ engine[p] = "running" /\ agent[p] = "run"
  /\ \E r \in {"done", "failed"} : engine' = [engine EXCEPT ![p] = r]
  /\ senders' = [senders EXCEPT ![p] = {}]
  /\ UNCHANGED <<total, member, ctlVars, agent, segment, inbox, work, progress>>

\* Engine::run returns, fails or panics, and the engine is dropped.  It returns
\* Ok with less than its share done after a signal, at maxDuration, or if VUs
\* panicked or could not be set up; nothing in the result tells.
EngineEnds(p) ==
  /\ engine[p] = "running" /\ agent[p] = "run"
  /\ \E r \in {"done", "failed"} : engine' = [engine EXCEPT ![p] = r]
  /\ senders' = [senders EXCEPT ![p] = @ \ {"engine"}]
  /\ UNCHANGED <<total, member, ctlVars, agent, segment, inbox, work, progress>>

\* select!: a snapshot; it holds what was counted when it was taken, and a
\* write that fails is only a warning.
ForwardProgress(p) ==
  /\ agent[p] = "run" /\ progress[p] > 0 /\ Len(inbox[p]) < MaxFrames
  /\ progress' = [progress EXCEPT ![p] = @ - 1]
  /\ \E w \in 0..work[p] :
       inbox' = [inbox EXCEPT ![p] =
                   IF OpenTo(p) THEN Append(@, [kind |-> "progress", work |-> w]) ELSE @]
  /\ UNCHANGED <<total, member, ctlVars, agent, segment, engine, work, senders>>

\* select!: the engine's result, or the end of the progress channel, whichever
\* is polled first.  The channel ends when nobody can send and it is empty.
\* Whatever Engine::run returned Ok with is shipped as final.
FinishAgent(p) ==
  /\ agent[p] = "run" /\ engine[p] \in {"done", "failed"}
  /\ \E ended \in {FALSE} \cup (IF senders[p] = {} /\ progress[p] = 0 THEN {TRUE} ELSE {}) :
       LET ship == ~ended /\ engine[p] = "done" /\ OpenTo(p)
           final == [kind |-> "final", work |-> work[p]]
       IN /\ inbox' = [inbox EXCEPT ![p] = IF ship THEN Append(@, final) ELSE @]
          /\ agent' = [agent EXCEPT ![p] = IF ended \/ ship THEN "ok" ELSE "err"]
          /\ progress' = [progress EXCEPT ![p] = 0]
          /\ senders' = [senders EXCEPT ![p] = {}]
  /\ UNCHANGED <<total, member, ctlVars, segment, engine, work>>

\* The process dies, or the connection breaks; unread frames may go with it.
Die(p) ==
  /\ agent[p] \in {"connected", "await", "run"}
  /\ agent' = [agent EXCEPT ![p] = "err"]
  /\ \E n \in 0..Len(inbox[p]) : inbox' = [inbox EXCEPT ![p] = SubSeq(@, 1, n)]
  /\ senders' = [senders EXCEPT ![p] = {}] /\ progress' = [progress EXCEPT ![p] = 0]
  /\ UNCHANGED <<total, member, ctlVars, segment, engine, work>>

-----------------------------------------------------------------------------
(* run_controller: the task of segment i.                                  *)

Handler(i, from, to) == handler[i] = from /\ handler' = [handler EXCEPT ![i] = to]

\* Any connection in the accept queue will do, a dead one too.
Accept(i) ==
  /\ outcome = "none" /\ Handler(i, "accept", "hello")
  /\ \E p \in Peer :
       /\ agent[p] # "connect" /\ (agent[p] = "err" => inbox[p] # <<>>)
       /\ \A j \in Task : link[j] # p
       /\ link' = [link EXCEPT ![i] = p]
  /\ UNCHANGED <<total, member, snapshots, joined, outcome, peerVars>>

\* The hello is read; the token decides between the assignment and an error.
ReadHello(i) ==
  /\ outcome = "none" /\ handler[i] = "hello"
  /\ LET p == link[i] IN
       /\ inbox[p] # <<>>
       /\ inbox' = [inbox EXCEPT ![p] = Tail(@)]
       /\ Handler(i, "hello", IF p \in member THEN "assign" ELSE "err")
  /\ UNCHANGED <<total, member, link, snapshots, joined, outcome, agent, segment, engine, work,
                 senders, progress>>

\* The assignment is written.  The write waits, without a timeout, for what the
\* socket's buffers do not hold to be read: nothing says when it is over.
WriteAssign(i) ==
  /\ outcome = "none" /\ Handler(i, "assign", "frames")
  /\ segment' = [segment EXCEPT ![link[i]] = i]
  /\ UNCHANGED <<total, member, link, snapshots, joined, outcome, agent, inbox, engine, work,
                 senders, progress>>

\* The peer is gone, and the write fails.
WriteFails(i) ==
  /\ outcome = "none" /\ Handler(i, "assign", "err") /\ agent[link[i]] = "err"
  /\ UNCHANGED <<total, member, link, snapshots, joined, outcome, peerVars>>

\* Mutant: the first snapshot is the result.
TakeAnyFrame(i) ==
  /\ outcome = "none" /\ handler[i] = "frames"
  /\ LET p == link[i] IN
       /\ inbox[p] # <<>>
       /\ inbox' = [inbox EXCEPT ![p] = Tail(@)]
       /\ Handler(i, "frames", "ok")
       /\ snapshots' = [snapshots EXCEPT ![i] = Head(inbox[p]).work]
  /\ UNCHANGED <<total, member, link, joined, outcome, agent, segment, engine, work,
                 senders, progress>>

\* read_agent_snapshot: progress is skipped, the final snapshot is returned.
ReadSnapshot(i) ==
  /\ outcome = "none" /\ handler[i] = "frames"
  /\ LET p == link[i] IN
       /\ inbox[p] # <<>>
       /\ inbox' = [inbox EXCEPT ![p] = Tail(@)]
       /\ IF Head(inbox[p]).kind = "final"
            THEN /\ Handler(i, "frames", "ok")
                 /\ snapshots' = [snapshots EXCEPT ![i] = Head(inbox[p]).work]
            ELSE UNCHANGED <<handler, snapshots>>
  /\ UNCHANGED <<total, member, link, joined, outcome, agent, segment, engine, work,
                 senders, progress>>

\* The peer has closed, or died, and all it wrote has been read.
ReadEof(i) ==
  /\ outcome = "none" /\ handler[i] \in {"hello", "frames"}
  /\ agent[link[i]] \in {"ok", "err"} /\ inbox[link[i]] = <<>>
  /\ handler' = [handler EXCEPT ![i] = "err"]
  /\ UNCHANGED <<total, member, link, snapshots, joined, outcome, peerVars>>

\* Mutant: an accepted connection may take its time to say who it is.
TimeOutUnlessHello(i) ==
  /\ outcome = "none" /\ handler[i] \in {"accept", "frames"}
  /\ handler' = [handler EXCEPT ![i] = "err"]
  /\ UNCHANGED <<total, member, link, snapshots, joined, outcome, peerVars>>

\* per_agent_timeout runs on the accept, the hello and the frames, and not on
\* the write between them.
TimeOut(i) ==
  /\ outcome = "none" /\ handler[i] \in {"accept", "hello", "frames"}
  /\ handler' = [handler EXCEPT ![i] = "err"]
  /\ UNCHANGED <<total, member, link, snapshots, joined, outcome, peerVars>>

\* The tasks are awaited in order; the first error is returned, and the
\* process ends with the other tasks.
Join ==
  /\ outcome = "none" /\ joined < NumAgents
  /\ handler[joined + 1] \in {"ok", "err"}
  /\ joined' = joined + 1
  /\ outcome' = IF handler[joined + 1] = "err" THEN "err"
                ELSE IF joined + 1 = NumAgents THEN "ok" ELSE "none"
  /\ UNCHANGED <<total, member, handler, link, snapshots, peerVars>>

TaskStep(i) ==
  Accept(i) \/ ReadHello(i) \/ ReadSnapshot(i) \/ ReadEof(i) \/ TimeOut(i)
Write(i) == WriteAssign(i) \/ WriteFails(i)

DistNext ==
  \/ Join
  \/ \E i \in Task : TaskStep(i) \/ Write(i)
  \/ \E p \in Peer : \/ ReachController(p) \/ GiveUp(p) \/ SendHello(p) \/ ReadAssign(p)
                     \/ Iterate(p) \/ TakeSnapshot(p)
                     \/ EngineEnds(p) \/ ForwardProgress(p) \/ FinishAgent(p) \/ Die(p)

\* The controller's timers run, and its joins.  Nothing is assumed of the peers,
\* and so nothing of a read or of a write, which wait for one.
DistFairness ==
  /\ WF_distVars(Join)
  /\ \A i \in Task : WF_distVars(TimeOut(i))

DistSpec == DistInit /\ [][DistNext]_distVars /\ DistFairness

-----------------------------------------------------------------------------
(* Properties.                                                             *)

\* The controller succeeds only with one final result of each segment, by an
\* agent of its own that holds the token, and merges what the engines did: no
\* iteration is merged twice or left out, and if no engine was cut short the
\* result is the whole job.
MergedIsWhole ==
  outcome = "ok" =>
    LET merged == MapThenSumSet(LAMBDA i : snapshots[i], Task)
    IN /\ \A i \in Task : /\ link[i] \in member /\ segment[link[i]] = i
                          /\ engine[link[i]] = "done" /\ snapshots[i] = work[link[i]]
       /\ \A i, j \in Task : i # j => link[i] # link[j]
       /\ merged <= total
       /\ (\A i \in Task : work[link[i]] = ShareOf(link[i])) => merged = total

\* An agent that exits with success has shipped its final snapshot: the end of
\* its progress channel is never taken for the end of its work.
FinalShipped ==
  \A p \in Peer : agent[p] = "ok" =>
    \/ ~OpenTo(p)
    \/ inbox[p] # <<>> /\ inbox[p][Len(inbox[p])].kind = "final"

\* The controller returns, if no write of an assignment lasts for ever: a peer
\* that connects and says nothing, or nothing more, is given up.  A token holder
\* that does not read what it is sent is the one peer it waits for.
ControllerReturns ==
  (\A i \in Task : []<>(handler[i] # "assign")) => <>(outcome # "none")
=============================================================================
