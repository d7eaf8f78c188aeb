--------------------------- MODULE ScenarioRunner ---------------------------
(***************************************************************************)
(* ScenarioRunner::run_iteration (crates/tropel-runtime/src/runner.rs):    *)
(* one VU walks the items of a collection.  The scripts of an item steer   *)
(* the walk through PmState (setNextRequest, skipRequest), may throw, and  *)
(* are interrupted by the scheduler's force-stop flag, which another       *)
(* thread sets at any time.                                                *)
(*                                                                         *)
(* Requests, responses, variables and samples are data: of the response    *)
(* only whose it is matters, and of the samples whether a failed check is  *)
(* among them.  A script comes to an end, by itself or interrupted.        *)
(***************************************************************************)
EXTENDS Integers, Sequences

CONSTANTS
  Items,          \* execution_items: what each has to run
  MaxJumps,       \* MAX_SET_NEXT_REQUEST_JUMPS
  MaxIterations   \* bound: iterations of the VU

\* request: the kind of its URL's scheme; pre, test: numbers of scripts.  An
\* item with none of them is passed over, and is left out.
Item == [request : {"none", "http", "protocol", "unknown"}, pre : Nat, test : Nat]

ASSUME RunnerAssumption ==
  Items \in Seq(Item) /\ MaxJumps \in Nat /\ MaxIterations \in Nat

VARIABLES
  forceStop,      \* force_stop
  iteration,      \* iterations started
  walk,           \* the locals of run_iteration
  pm,             \* PmState: response, skip_request and next_request
  past            \* history: what this iteration has met

runnerVars == <<forceStop, iteration, walk, pm, past>>

\* next_request: none, the sentinel, or an index.
NoJump == 0
EndIteration == -1
Target == DOMAIN Items \cup {NoJump, EndIteration}

RunnerTypeOK ==
  /\ forceStop \in BOOLEAN /\ iteration \in 0..MaxIterations
  /\ walk \in [at : {"idle", "top", "pre", "preError", "send", "test", "testError", "bottom"},
               index : 1..(Len(Items) + 1), script : Nat, jumps : 0..(MaxJumps + 1),
               failures : BOOLEAN]
  /\ pm \in [response : {"none", "own", "other"}, skip : BOOLEAN, next : Target]
  /\ past \in [threw : BOOLEAN, cut : BOOLEAN, skipped : BOOLEAN, asked : BOOLEAN]

RunnerInit ==
  /\ forceStop = FALSE /\ iteration = 0
  /\ walk = [at |-> "idle", index |-> 1, script |-> 1, jumps |-> 0, failures |-> FALSE]
  /\ pm = [response |-> "none", skip |-> FALSE, next |-> NoJump]
  /\ past = [threw |-> FALSE, cut |-> FALSE, skipped |-> FALSE, asked |-> FALSE]

ItemNow == Items[walk.index]
GoTo(s) == walk' = [walk EXCEPT !.at = s, !.script = 1]

-----------------------------------------------------------------------------

\* The scheduler, from another thread.
ForceStop ==
  /\ ~forceStop /\ forceStop' = TRUE
  /\ UNCHANGED <<iteration, walk, pm, past>>

\* A jump that the iteration before left behind is cleared.
StartIteration ==
  /\ walk.at = "idle" /\ iteration < MaxIterations
  /\ iteration' = iteration + 1
  /\ walk' = [at |-> "top", index |-> 1, script |-> 1, jumps |-> 0, failures |-> FALSE]
  /\ pm' = [pm EXCEPT !.next = NoJump]
  /\ past' = [threw |-> FALSE, cut |-> FALSE, skipped |-> FALSE, asked |-> FALSE]
  /\ UNCHANGED forceStop

EndWalk ==
  /\ walk.at = "top" /\ (walk.index > Len(Items) \/ forceStop)
  /\ GoTo("idle")
  /\ UNCHANGED <<forceStop, iteration, pm, past>>

\* Mutant: the response is only ever set, and the flag only ever consumed.
KeepPm == [pm EXCEPT !.response = IF @ = "none" THEN @ ELSE "other"]

\* What an item finds: no response, and no request to be skipped.
FreshPm == [pm EXCEPT !.response = "none", !.skip = FALSE]

BeginItem ==
  /\ walk.at = "top" /\ walk.index <= Len(Items) /\ ~forceStop
  /\ GoTo("pre")
  /\ pm' = FreshPm
  /\ past' = [past EXCEPT !.skipped = FALSE, !.asked = FALSE]
  /\ UNCHANGED <<forceStop, iteration>>

\* A script may set the jump (an id, a name or an index, null and the unknown
\* being the sentinel) and ask to skip the request.
ScriptEffect(throws) ==
  \E next \in Target, skip \in BOOLEAN :
    /\ pm' = [pm EXCEPT !.next = IF next = NoJump THEN @ ELSE next, !.skip = @ \/ skip]
    /\ past' = [past EXCEPT !.threw = @ \/ throws, !.asked = @ \/ (skip /\ walk.at = "pre")]

\* The next script of the phase returns ...
RunScript(phase, count) ==
  /\ walk.at = phase /\ walk.script <= count
  /\ ScriptEffect(FALSE)
  /\ walk' = [walk EXCEPT !.script = @ + 1]
  /\ UNCHANGED <<forceStop, iteration>>

\* ... or throws, by itself or because it was interrupted.
ScriptThrows(phase, count, error) ==
  /\ walk.at = phase /\ walk.script <= count
  /\ ScriptEffect(TRUE)
  /\ GoTo(error)
  /\ UNCHANGED <<forceStop, iteration>>

\* The error ends the chain of scripts; it is a failed check, unless the flag
\* is set by now.
NoteError(error, next) ==
  /\ walk.at = error
  /\ walk' = [walk EXCEPT !.at = next, !.script = 1, !.failures = @ \/ ~forceStop]
  /\ UNCHANGED <<forceStop, iteration, pm, past>>

\* Every prerequest script has run, and the skip flag is taken.
EndPre ==
  /\ walk.at = "pre" /\ walk.script > ItemNow.pre
  /\ GoTo("send")
  /\ UNCHANGED <<forceStop, iteration, pm, past>>

SkipItem ==
  /\ walk.at = "send" /\ pm.skip
  /\ pm' = [pm EXCEPT !.skip = FALSE] /\ past' = [past EXCEPT !.skipped = TRUE]
  /\ GoTo("bottom")
  /\ UNCHANGED <<forceStop, iteration>>

\* The request goes to the HTTP client or to the protocol of its scheme, which
\* may give no response; an unknown scheme is not sent.  An error leaves the
\* response alone.
SendRequest ==
  /\ walk.at = "send" /\ ~pm.skip
  /\ \/ ItemNow.request \in {"http", "protocol"} /\ pm' = [pm EXCEPT !.response = "own"]
     \/ UNCHANGED pm
  /\ GoTo("test")
  /\ UNCHANGED <<forceStop, iteration, past>>

EndTest ==
  /\ walk.at = "test" /\ walk.script > ItemNow.test
  /\ GoTo("bottom")
  /\ UNCHANGED <<forceStop, iteration, pm, past>>

\* Mutant: any jump is honoured.
JumpUncounted ==
  /\ walk.at = "bottom" /\ pm.next \in DOMAIN Items
  /\ pm' = [pm EXCEPT !.next = NoJump]
  /\ walk' = [walk EXCEPT !.at = "top", !.index = pm.next]
  /\ UNCHANGED <<forceStop, iteration, past>>

\* Mutant: one jump too many.
JumpOffByOne ==
  /\ walk.at = "bottom" /\ pm.next \in DOMAIN Items
  /\ pm' = [pm EXCEPT !.next = NoJump]
  /\ walk' = IF walk.jumps <= MaxJumps
               THEN [walk EXCEPT !.at = "top", !.jumps = @ + 1, !.index = pm.next]
               ELSE [walk EXCEPT !.at = "idle", !.jumps = @ + 1, !.failures = TRUE]
  /\ past' = [past EXCEPT !.cut = walk.jumps > MaxJumps]
  /\ UNCHANGED <<forceStop, iteration>>

\* A jump to an item, up to the cap; past it the iteration ends with a failed
\* check.
Jump ==
  /\ walk.at = "bottom" /\ pm.next \in DOMAIN Items
  /\ pm' = [pm EXCEPT !.next = NoJump]
  /\ walk' = IF walk.jumps < MaxJumps
               THEN [walk EXCEPT !.at = "top", !.jumps = @ + 1, !.index = pm.next]
               ELSE [walk EXCEPT !.at = "idle", !.jumps = @ + 1, !.failures = TRUE]
  /\ past' = [past EXCEPT !.cut = walk.jumps >= MaxJumps]
  /\ UNCHANGED <<forceStop, iteration>>

JumpOut ==
  /\ walk.at = "bottom" /\ pm.next = EndIteration
  /\ pm' = [pm EXCEPT !.next = NoJump]
  /\ GoTo("idle")
  /\ UNCHANGED <<forceStop, iteration, past>>

NextItem ==
  /\ walk.at = "bottom" /\ pm.next = NoJump
  /\ walk' = [walk EXCEPT !.at = "top", !.index = @ + 1]
  /\ UNCHANGED <<forceStop, iteration, pm, past>>

-----------------------------------------------------------------------------

WalkStep ==
  \/ EndWalk \/ BeginItem
  \/ RunScript("pre", ItemNow.pre) \/ ScriptThrows("pre", ItemNow.pre, "preError")
  \/ NoteError("preError", "send") \/ EndPre \/ SkipItem \/ SendRequest
  \/ RunScript("test", ItemNow.test) \/ ScriptThrows("test", ItemNow.test, "testError")
  \/ NoteError("testError", "bottom") \/ EndTest
  \/ Jump \/ JumpOut \/ NextItem

RunnerNext == ForceStop \/ StartIteration \/ WalkStep

\* The VU's task runs; every script and every request ends.
RunnerSpec == RunnerInit /\ [][RunnerNext]_runnerVars /\ WF_runnerVars(WalkStep)

-----------------------------------------------------------------------------
(* Properties.                                                             *)

\* What an item's scripts leave behind steers no other item: a test never sees
\* the response of another request, and a request is skipped only if its own
\* prerequest scripts asked for it, whatever jumps and errors led here.  And an
\* iteration that an error or a runaway jump cut short says so, unless it was
\* being stopped.
WalkIsHonest ==
  /\ pm.response # "other"
  /\ walk.at = "pre" => pm.response = "none"
  /\ past.skipped => past.asked
  /\ walk.at = "idle" /\ (past.threw \/ past.cut) /\ ~forceStop => walk.failures

\* Every iteration ends, however its scripts jump.
WalkEnds == walk.at # "idle" ~> walk.at = "idle"
=============================================================================
