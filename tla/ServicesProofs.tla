--------------------------- MODULE ServicesProofs ---------------------------
(***************************************************************************)
(* Proofs about the parts MCServices puts side by side: the worker pool, for*)
(* every number of VUs, cores and workers; the scenario runner, for every  *)
(* collection and every cap on the jumps; the script agent, for every number*)
(* of scripts, run ids, polls, replies and host calls.                     *)
(***************************************************************************)
EXTENDS MCServices, FiniteSetTheorems, TLAPS

-----------------------------------------------------------------------------
(***************************************************************************)
(* The worker pool.                                                        *)
(***************************************************************************)

(***************************************************************************)
(* SizedToPeak is not inductive: a caller that has seen every flag set may *)
(* grow the pool much later.  The callers that may still grow it count as  *)
(* workers already, and are paid for when they find no idle one: then the  *)
(* owners, one for each worker whose flag nobody left behind, the callers  *)
(* that may grow it and the one that joins them are all different VUs.     *)
(***************************************************************************)
Sizing ==
  /\ Cardinality(Present) <= peak
  /\ Len(busy) + Cardinality(Grower) <= MaxOf(InitialWorkers, peak + Cardinality(leaked))

\* Drop begins when nobody is in acquire_slot, and stops the threads.
DropIsLast ==
  /\ drop # "no" => \A v \in Vu : at[v] \notin Acquiring
  /\ drop = "no" => \A i \in 1..Len(thread) : thread[i] = "runs"

WorkerInv == WorkerTypeOK /\ DropIsLast /\ FlagsAreOwners /\ Sizing

-----------------------------------------------------------------------------
(* Types, and what Drop may rely on.                                       *)

\* A VU that wraps or runs inline is on a worker there is, or on none.
LEMMA WrapTyped ==
  ASSUME WorkerTypeOK, NEW v \in Vu, NEW n \in 0..Len(busy), WrapOrInline(v, n)
  PROVE  /\ at' \in [Vu -> Acquiring \cup {"out", "own", "wrapped", "inline"}]
         /\ at'[v] \in {"wrapped", "inline"}
         /\ \A w \in Vu : w # v => at'[w] = at[w] /\ host'[w] = host[w]
         /\ host' \in [Vu -> Nat]
         /\ at'[v] = "wrapped" => host'[v] \in 1..Len(busy)
<1>1. Len(busy) \in Nat
  BY DEF WorkerTypeOK
<1>2. CASE n > 0
  <2>1. PICK i \in 1..n : host' = [host EXCEPT ![v] = i] /\ at' = [at EXCEPT ![v] = "wrapped"]
    BY <1>2 DEF WrapOrInline
  <2>2. i \in 1..Len(busy) /\ i \in Nat
    BY <1>1
  <2> QED
    BY <2>1, <2>2 DEF WorkerTypeOK
<1>3. CASE ~(n > 0)
  BY <1>3 DEF WorkerTypeOK, WrapOrInline
<1> QED
  BY <1>2, <1>3

\* The steps of acquire_slot keep the types, and happen only before Drop.
LEMMA AcquireTyped ==
  ASSUME WorkerTypeOK, DropIsLast, NEW v \in Vu, SpawnVu(v) \/ Acquire(v)
  PROVE  WorkerTypeOK' /\ DropIsLast' /\ drop = "no"
<1> USE DEF WorkerTypeOK, DropIsLast, Hosted, Acquiring, dropVars, history
<1>0. drop = "no"
  BY DEF SpawnVu, Acquire, FindIdle, FindNone, ReadCurrent, Built, BuildFails, Insert
<1>1. CASE SpawnVu(v)
  <2>1. peak' \in Nat
    <3>1. IsFiniteSet(Present) /\ Cardinality(Present) \in Nat
      BY FS_Subset, FS_CardinalityType, WorkerAssumption DEF Present
    <3> QED
      BY <1>1, <3>1 DEF SpawnVu, MaxOf
  <2> QED
    BY <1>0, <1>1, <2>1 DEF SpawnVu
<1>2. CASE FindIdle(v)
  <2>1. PICK i \in 1..Len(busy) :
          busy' = [busy EXCEPT ![i] = TRUE] /\ host' = [host EXCEPT ![v] = i]
    BY <1>2 DEF FindIdle
  <2>2. busy' \in Seq(BOOLEAN) /\ Len(busy') = Len(busy) /\ Len(busy) \in Nat
    BY <2>1
  <2>3. /\ host' \in [Vu -> Nat] /\ at' \in [Vu -> Acquiring \cup {"out", "own", "wrapped", "inline"}]
        /\ \A w \in Hosted' : host'[w] \in 1..Len(busy')
    BY <1>2, <2>1, <2>2 DEF FindIdle
  <2> QED
    BY <1>0, <1>2, <2>1, <2>2, <2>3 DEF FindIdle
<1>3. CASE FindNone(v)
  BY <1>0, <1>3 DEF FindNone
<1>4. CASE ReadCurrent(v)
  <2>1. Len(busy) \in 0..Len(busy)
    OBVIOUS
  <2>2. CASE Len(busy) >= MaxWorkers \/ growthFailed
    BY <1>0, <1>4, <2>1, <2>2, WrapTyped DEF ReadCurrent
  <2>3. CASE ~(Len(busy) >= MaxWorkers \/ growthFailed)
    <3>1. /\ at[v] = "current" /\ at' = [at EXCEPT ![v] = "build"]
          /\ snap' = [snap EXCEPT ![v] = Len(busy)]
          /\ UNCHANGED <<busy, host, growthFailed, thread, polled, blocked, dropVars, history>>
      BY <1>4, <2>3 DEF ReadCurrent
    <3>2. \A w \in Vu : at'[w] \in {"own", "wrapped"} <=> at[w] \in {"own", "wrapped"}
      BY <3>1
    <3>3. at' \in [Vu -> Acquiring \cup {"out", "own", "wrapped", "inline"}] /\ Hosted' = Hosted
      BY <3>1, <3>2
    <3>4. snap' \in [Vu -> Nat] /\ \A w \in Vu : snap'[w] <= Len(busy)
      BY <3>1
    <3> QED
      BY <1>0, <3>1, <3>3, <3>4
  <2> QED
    BY <2>2, <2>3
<1>5. CASE Built(v)
  BY <1>0, <1>5 DEF Built
<1>6. CASE BuildFails(v)
  <2>1. snap[v] \in 0..Len(busy)
    OBVIOUS
  <2> QED
    <3>1. /\ at[v] = "build" /\ growthFailed' = TRUE /\ snap' = [snap EXCEPT ![v] = 0]
          /\ UNCHANGED <<busy, thread, polled, blocked, dropVars, history>>
      BY <1>6 DEF BuildFails
    <3>2. /\ at' \in [Vu -> Acquiring \cup {"out", "own", "wrapped", "inline"}]
          /\ host' \in [Vu -> Nat]
          /\ \A w \in Vu : w # v => at'[w] = at[w] /\ host'[w] = host[w]
          /\ at'[v] \in {"wrapped", "inline"} /\ (at'[v] = "wrapped" => host'[v] \in 1..Len(busy))
      BY <1>6, <2>1, WrapTyped DEF BuildFails
    <3>3. Hosted \subseteq Hosted' /\ \A w \in Hosted' : host'[w] \in 1..Len(busy)
      BY <3>1, <3>2
    <3>4. snap' \in [Vu -> Nat] /\ \A w \in Vu : snap'[w] <= Len(busy)
      BY <3>1
    <3> QED
      BY <1>0, <3>1, <3>2, <3>3, <3>4
<1>7. CASE Insert(v)
  <2>1. CASE Len(busy) = snap[v]
    <3>1. busy' = Append(busy, TRUE) /\ thread' = Append(thread, "runs")
      BY <1>7, <2>1 DEF Insert
    <3>2. busy' \in Seq(BOOLEAN) /\ Len(busy') = Len(busy) + 1 /\ Len(busy) \in Nat
      BY <3>1
    <3>3. thread' \in Seq({"runs", "notified", "exited"}) /\ Len(thread') = Len(busy')
      BY <3>1, <3>2
    <3>4. DropIsLast'
      <4>1. \A i \in 1..Len(thread) : thread[i] = "runs"
        BY <1>0
      <4>2. \A i \in 1..(Len(thread) + 1) : thread'[i] = "runs"
        BY <3>1, <4>1
      <4> QED
        BY <1>0, <1>7, <3>2, <3>3, <4>2 DEF Insert
    <3>5. /\ host' \in [Vu -> Nat] /\ at' \in [Vu -> Acquiring \cup {"out", "own", "wrapped", "inline"}]
          /\ \A w \in Hosted' : host'[w] \in 1..Len(busy')
      <4>1. host' = [host EXCEPT ![v] = Len(busy) + 1] /\ at' = [at EXCEPT ![v] = "own"]
        BY <1>7, <2>1 DEF Insert
      <4>2. \A w \in Vu : w # v => host'[w] = host[w] /\ at'[w] = at[w]
        BY <4>1
      <4>3. host'[v] = Len(busy')
        BY <4>1, <3>2
      <4> QED
        BY <4>1, <4>2, <4>3, <3>2
    <3>6. \A w \in Vu : snap'[w] <= Len(busy')
      BY <1>7, <3>2 DEF Insert
    <3>7. snap' \in [Vu -> Nat]
      BY <1>7 DEF Insert
    <3>8. Hosted \subseteq Hosted' /\ UNCHANGED <<growthFailed, polled, blocked, dropVars, history>>
      BY <1>7, <2>1 DEF Insert
    <3>9. leaked' \subseteq 1..Len(busy')
      BY <3>2, <3>8
    <3> QED
      BY <3>2, <3>3, <3>4, <3>5, <3>6, <3>7, <3>8, <3>9, <1>0
  <2>2. CASE Len(busy) # snap[v]
    <3>1. /\ at[v] = "insert" /\ at' = [at EXCEPT ![v] = "current"]
          /\ snap' = [snap EXCEPT ![v] = 0]
          /\ UNCHANGED <<busy, host, growthFailed, thread, polled, blocked, dropVars, history>>
      BY <1>7, <2>2 DEF Insert
    <3>2. \A w \in Vu : at'[w] \in {"own", "wrapped"} <=> at[w] \in {"own", "wrapped"}
      BY <3>1
    <3>3. at' \in [Vu -> Acquiring \cup {"out", "own", "wrapped", "inline"}] /\ Hosted' = Hosted
      BY <3>1, <3>2
    <3>4. snap' \in [Vu -> Nat] /\ \A w \in Vu : snap'[w] <= Len(busy)
      BY <3>1
    <3> QED
      BY <1>0, <3>1, <3>3, <3>4
  <2> QED
    BY <2>1, <2>2
<1> QED
  BY <1>0, <1>1, <1>2, <1>3, <1>4, <1>5, <1>6, <1>7 DEF Acquire

\* So do the steps of the VUs on their threads.
LEMMA VuTyped ==
  ASSUME WorkerTypeOK, DropIsLast, NEW v \in Vu,
         FirstPoll(v) \/ Block(v) \/ Unblock(v) \/ VuEnds(v) \/ AbortUnpolled(v)
  PROVE  WorkerTypeOK' /\ DropIsLast'
<1> USE DEF WorkerTypeOK, DropIsLast, Hosted, Acquiring, dropVars, slotVars, history
<1>1. CASE FirstPoll(v)
  BY <1>1 DEF FirstPoll
<1>2. CASE Block(v)
  BY <1>2 DEF Block
<1>3. CASE Unblock(v)
  BY <1>3 DEF Unblock
<1>4. CASE VuEnds(v)
  <2>1. v \notin blocked
    BY <1>4 DEF VuEnds, Occupied
  <2> QED
    BY <1>4, <2>1 DEF VuEnds, Release, Leave
<1>5. CASE AbortUnpolled(v)
  <2>1. v \notin blocked /\ host[v] \in 1..Len(busy)
    BY <1>5 DEF AbortUnpolled
  <2>2. leaked' \subseteq 1..Len(busy)
    <3>1. leaked' \subseteq leaked \cup {host[v]}
      BY <1>5 DEF AbortUnpolled
    <3> QED
      BY <2>1, <3>1
  <2> QED
    BY <1>5, <2>1, <2>2 DEF AbortUnpolled, Leave
<1> QED
  BY <1>1, <1>2, <1>3, <1>4, <1>5

\* And the steps of Drop and of the threads it stops.
LEMMA DropTyped ==
  ASSUME WorkerTypeOK, DropIsLast,
         StartDrop \/ DropStep \/ \E i \in 1..Len(thread) : ThreadExits(i)
  PROVE  WorkerTypeOK' /\ DropIsLast'
<1> USE DEF WorkerTypeOK, DropIsLast, Hosted, Acquiring, dropVars, slotVars, history
<1>1. CASE StartDrop
  BY <1>1 DEF StartDrop
<1>2. CASE JoinBoundPasses
  BY <1>2 DEF JoinBoundPasses
<1>3. CASE JoinOrDetach
  BY <1>3 DEF JoinOrDetach
<1>4. CASE DropReturns
  BY <1>4 DEF DropReturns
<1>5. ASSUME NEW i \in 1..Len(thread), ThreadExits(i) PROVE WorkerTypeOK' /\ DropIsLast'
  <2> DEFINE gone == {v \in Hosted : host[v] = i}
  <2>1. blocked \cap gone = {}
    BY <1>5 DEF ThreadExits, Occupied
  <2>2. \A v \in Vu : at'[v] = (IF v \in gone THEN "out" ELSE at[v])
    BY <1>5 DEF ThreadExits
  <2>3. Hosted' = Hosted \ gone /\ \A v \in Hosted' : host'[v] = host[v]
    BY <1>5, <2>2 DEF ThreadExits
  <2>4. polled' \subseteq Hosted' /\ blocked' \subseteq polled'
    BY <1>5, <2>1, <2>3 DEF ThreadExits
  <2>5. leaked' \subseteq 1..Len(busy)
    <3>1. leaked' \subseteq leaked \cup {i}
      BY <1>5 DEF ThreadExits
    <3> QED
      BY <3>1
  <2> QED
    BY <1>5, <2>3, <2>4, <2>5 DEF ThreadExits, Release
<1> QED
  BY <1>1, <1>2, <1>3, <1>4, <1>5 DEF DropStep

-----------------------------------------------------------------------------
(* The busy flags.                                                         *)

\* A step that leaves the flags, the owners and their workers alone.
LEMMA SameOwners ==
  ASSUME WorkerTypeOK, FlagsAreOwners, busy' = busy, leaked' = leaked,
         Owner' = Owner, \A w \in Owner : host'[w] = host[w]
  PROVE  FlagsAreOwners'
BY DEF FlagsAreOwners

\* A VU becomes the owner of a worker that nobody owns.
LEMMA NewOwner ==
  ASSUME WorkerTypeOK, FlagsAreOwners, leaked' = leaked, NEW v \in Vu, at[v] # "own",
         NEW i \in 1..Len(busy'),
         \A j \in 1..Len(busy') : j # i => j \in 1..Len(busy) /\ busy'[j] = busy[j],
         busy'[i] = TRUE, i \in 1..Len(busy) => busy[i] = FALSE,
         at' = [at EXCEPT ![v] = "own"], host' = [host EXCEPT ![v] = i]
  PROVE  FlagsAreOwners'
<1>1. Owner' = Owner \cup {v} /\ v \notin Owner
  BY DEF Owner, WorkerTypeOK
<1>2. host'[v] = i /\ \A w \in Owner : host'[w] = host[w] /\ host[w] \in 1..Len(busy)
  BY <1>1 DEF Owner, Hosted, WorkerTypeOK
<1>3. \A w \in Owner : host[w] # i
  BY <1>2 DEF FlagsAreOwners
<1>4. \A w, x \in Owner : host[w] = host[x] => w = x
  BY DEF FlagsAreOwners
<1>5. \A w, x \in Owner' : host'[w] = host'[x] => w = x
  BY <1>1, <1>2, <1>3, <1>4
<1>6. i \notin leaked
  <2>1. CASE i \in 1..Len(busy)
    BY <2>1 DEF FlagsAreOwners
  <2>2. CASE i \notin 1..Len(busy)
    BY <2>2 DEF WorkerTypeOK
  <2> QED
    BY <2>1, <2>2
<1>7. \A w \in Owner' : host'[w] \notin leaked'
  BY <1>1, <1>2, <1>6 DEF FlagsAreOwners
<1>8. ASSUME NEW j \in 1..Len(busy')
      PROVE  busy'[j] <=> j \in leaked' \/ \E w \in Owner' : host'[w] = j
  <2>1. CASE j = i
    BY <2>1, <1>1, <1>2
  <2>2. CASE j # i
    <3>1. j \in 1..Len(busy) /\ busy'[j] = busy[j]
      BY <2>2
    <3>2. busy[j] <=> j \in leaked \/ \E w \in Owner : host[w] = j
      BY <3>1 DEF FlagsAreOwners
    <3> QED
      BY <3>1, <3>2, <2>2, <1>1, <1>2
  <2> QED
    BY <2>1, <2>2
<1> QED
  BY <1>5, <1>7, <1>8 DEF FlagsAreOwners

\* acquire_slot sets one flag, and makes its VU the owner, or sets none.
LEMMA AcquireFlags ==
  ASSUME WorkerTypeOK, FlagsAreOwners, NEW v \in Vu, SpawnVu(v) \/ Acquire(v)
  PROVE  FlagsAreOwners'
<1>0. Len(busy) \in Nat
  BY DEF WorkerTypeOK
<1>leak. leaked' = leaked
  BY DEF SpawnVu, Acquire, FindIdle, FindNone, ReadCurrent, Built, BuildFails, Insert, history
<1>1. ASSUME busy' = busy, at[v] # "own", at'[v] # "own",
             \A w \in Vu : w # v => at'[w] = at[w] /\ host'[w] = host[w]
      PROVE  FlagsAreOwners'
  <2>1. Owner' = Owner /\ v \notin Owner
    BY <1>1 DEF Owner
  <2> QED
    BY <1>leak, <1>1, <2>1, SameOwners DEF Owner
<1>2. CASE SpawnVu(v)
  BY <1>1, <1>2 DEF SpawnVu, WorkerTypeOK
<1>3. CASE FindIdle(v)
  <2>1. PICK i \in 1..Len(busy) :
          /\ ~busy[i] /\ busy' = [busy EXCEPT ![i] = TRUE]
          /\ host' = [host EXCEPT ![v] = i]
    BY <1>3 DEF FindIdle
  <2>2. busy[i] = FALSE
    BY <2>1 DEF WorkerTypeOK
  <2>3. Len(busy') = Len(busy) /\ busy'[i] = TRUE
        /\ \A j \in 1..Len(busy) : j # i => busy'[j] = busy[j]
    BY <2>1 DEF WorkerTypeOK
  <2>4. at[v] # "own" /\ at' = [at EXCEPT ![v] = "own"]
    BY <1>3 DEF FindIdle
  <2>5. i \in 1..Len(busy') /\ \A j \in 1..Len(busy') : j # i => j \in 1..Len(busy) /\ busy'[j] = busy[j]
    BY <2>3
  <2>6. host' = [host EXCEPT ![v] = i]
    BY <2>1
  <2>7. busy'[i] = TRUE
    BY <2>3
  <2> QED
    BY <2>2, <2>4, <2>5, <2>6, <2>7, <1>leak, NewOwner
<1>4. CASE FindNone(v)
  BY <1>1, <1>4 DEF FindNone, WorkerTypeOK
<1>5. CASE ReadCurrent(v)
  <2>1. CASE Len(busy) >= MaxWorkers \/ growthFailed
    BY <1>0, <1>1, <1>5, <2>1, WrapTyped DEF ReadCurrent
  <2>2. CASE ~(Len(busy) >= MaxWorkers \/ growthFailed)
    BY <1>1, <1>5, <2>2 DEF ReadCurrent, WorkerTypeOK
  <2> QED
    BY <2>1, <2>2
<1>6. CASE Built(v)
  BY <1>1, <1>6 DEF Built, WorkerTypeOK
<1>7. CASE BuildFails(v)
  <2>1. snap[v] \in 0..Len(busy)
    BY <1>0 DEF WorkerTypeOK
  <2> QED
    BY <1>1, <1>7, <2>1, WrapTyped DEF BuildFails
<1>8. CASE Insert(v)
  <2>1. CASE Len(busy) = snap[v]
    <3>1. /\ busy' = Append(busy, TRUE) /\ host' = [host EXCEPT ![v] = Len(busy) + 1]
          /\ at' = [at EXCEPT ![v] = "own"] /\ at[v] # "own"
      BY <1>8, <2>1 DEF Insert
    <3>2. /\ Len(busy') = Len(busy) + 1 /\ busy'[Len(busy) + 1] = TRUE
          /\ \A j \in 1..(Len(busy) + 1) : j # Len(busy) + 1 =>
               j \in 1..Len(busy) /\ busy'[j] = busy[j]
      BY <1>0, <3>1 DEF WorkerTypeOK
    <3> DEFINE i == Len(busy) + 1
    <3>3. /\ i \in 1..Len(busy') /\ busy'[i] = TRUE /\ i \notin 1..Len(busy)
          /\ \A j \in 1..Len(busy') : j # i => j \in 1..Len(busy) /\ busy'[j] = busy[j]
      BY <1>0, <3>2
    <3>4. host' = [host EXCEPT ![v] = i]
      BY <3>1
    <3> HIDE DEF i
    <3> QED
      BY <3>1, <3>3, <3>4, <1>leak, NewOwner
  <2>2. CASE Len(busy) # snap[v]
    BY <1>1, <1>8, <2>2 DEF Insert, WorkerTypeOK
  <2> QED
    BY <2>1, <2>2
<1> QED
  BY <1>2, <1>3, <1>4, <1>5, <1>6, <1>7, <1>8 DEF Acquire

(***************************************************************************)
(* VUs leave their workers: the ones of V were polled, and BusyGuard clears *)
(* the flag of each; the ones of U were not, and leave theirs.             *)
(***************************************************************************)
LEMMA LeaveFlags ==
  ASSUME WorkerTypeOK, FlagsAreOwners, NEW V \in SUBSET Owner, NEW U \in SUBSET Owner,
         V \cap U = {}, Owner' = Owner \ (V \cup U),
         \A w \in Owner' : host'[w] = host[w],
         Len(busy') = Len(busy),
         \A i \in 1..Len(busy) : busy'[i] <=> busy[i] /\ \A w \in V : host[w] # i,
         leaked' = leaked \cup {host[w] : w \in U}
  PROVE  FlagsAreOwners'
<1>1. \A w, x \in Owner : host[w] = host[x] => w = x
  BY DEF FlagsAreOwners
<1>2. \A w \in Owner : host[w] \notin leaked
  BY DEF FlagsAreOwners
<1>3. \A w \in Owner' : host'[w] \notin leaked'
  BY <1>1, <1>2
<1>4. \A w, x \in Owner' : host'[w] = host'[x] => w = x
  BY <1>1
<1>5. ASSUME NEW i \in 1..Len(busy)
      PROVE  busy'[i] <=> i \in leaked' \/ \E w \in Owner' : host'[w] = i
  <2>1. busy[i] <=> i \in leaked \/ \E w \in Owner : host[w] = i
    BY DEF FlagsAreOwners
  <2>2. CASE \E w \in V : host[w] = i
    <3>1. PICK w \in V : host[w] = i
      BY <2>2
    <3>2. i \notin leaked' /\ \A x \in Owner' : host'[x] # i
      BY <1>1, <1>2, <3>1
    <3> QED
      BY <2>2, <3>2
  <2>3. CASE ~\E w \in V : host[w] = i
    BY <2>1, <2>3
  <2> QED
    BY <2>2, <2>3
<1> QED
  BY <1>3, <1>4, <1>5 DEF FlagsAreOwners

\* BusyGuard clears the flag of the VU that ends, and no other.
LEMMA EndFlags ==
  ASSUME WorkerTypeOK, FlagsAreOwners, NEW v \in Vu, VuEnds(v)
  PROVE  FlagsAreOwners'
<1> DEFINE V == {v} \cap Owner
<1>1. V \in SUBSET Owner /\ Owner' = Owner \ (V \cup {}) /\ \A w \in Owner' : host'[w] = host[w]
  BY DEF VuEnds, Leave, Owner, WorkerTypeOK
<1>2. Len(busy) \in Nat /\ Len(busy') = Len(busy)
  BY DEF VuEnds, Release, WorkerTypeOK
<1>3. \A i \in 1..Len(busy) : busy'[i] <=> busy[i] /\ \A w \in V : host[w] # i
  BY DEF VuEnds, Release
<1>4. leaked' = leaked \cup {host[w] : w \in {}}
  BY DEF VuEnds, history
<1>5. {} \in SUBSET Owner /\ V \cap {} = {}
  OBVIOUS
<1> HIDE DEF V
<1> QED
  BY <1>1, <1>2, <1>3, <1>4, <1>5, LeaveFlags

\* A VU that is aborted before its first poll leaves its flag.
LEMMA AbortFlags ==
  ASSUME WorkerTypeOK, FlagsAreOwners, NEW v \in Vu, AbortUnpolled(v)
  PROVE  FlagsAreOwners'
<1> DEFINE U == {v} \cap Owner
<1>1. U \in SUBSET Owner /\ Owner' = Owner \ ({} \cup U) /\ \A w \in Owner' : host'[w] = host[w]
  BY DEF AbortUnpolled, Leave, Owner, WorkerTypeOK
<1>2. busy' = busy /\ leaked' = leaked \cup {host[w] : w \in U}
  BY DEF AbortUnpolled
<1>3. \A i \in 1..Len(busy) : busy'[i] <=> busy[i] /\ \A w \in {} : host[w] # i
  BY <1>2
<1>4. {} \in SUBSET Owner /\ {} \cap U = {} /\ Len(busy') = Len(busy)
  BY <1>2
<1> HIDE DEF U
<1> QED
  BY <1>1, <1>2, <1>3, <1>4, LeaveFlags

\* A thread that exits drops the VUs it hosts, polled or not.
LEMMA ExitFlags ==
  ASSUME WorkerTypeOK, FlagsAreOwners, NEW i \in 1..Len(thread), ThreadExits(i)
  PROVE  FlagsAreOwners'
<1> DEFINE gone == {v \in Hosted : host[v] = i}
           V == gone \cap polled \cap Owner
           U == (gone \cap Owner) \ polled
<1>1. V \in SUBSET Owner /\ U \in SUBSET Owner /\ V \cap U = {} /\ V \cup U = gone \cap Owner
  OBVIOUS
<1>2. \A v \in Vu : /\ at'[v] = (IF v \in gone THEN "out" ELSE at[v])
                    /\ host'[v] = (IF v \in gone THEN 0 ELSE host[v])
  BY DEF ThreadExits
<1>3. Owner' = Owner \ (V \cup U) /\ \A w \in Owner' : host'[w] = host[w]
  BY <1>1, <1>2 DEF Owner
<1>4. Len(busy) \in Nat /\ Len(busy') = Len(busy)
  BY DEF ThreadExits, Release, WorkerTypeOK
<1>5. \A j \in 1..Len(busy) : busy'[j] <=> busy[j] /\ \A w \in V : host[w] # j
  BY DEF ThreadExits, Release
<1>6. leaked' = leaked \cup {host[w] : w \in U}
  BY DEF ThreadExits
<1> HIDE DEF V, U
<1> QED
  BY <1>1, <1>3, <1>4, <1>5, <1>6, LeaveFlags

-----------------------------------------------------------------------------
(* The size of the pool.                                                   *)

\* The sets of VUs the argument counts are finite.
LEMMA Counts ==
  /\ IsFiniteSet(Present) /\ Cardinality(Present) \in Nat
  /\ IsFiniteSet(Grower) /\ Cardinality(Grower) \in Nat
  /\ IsFiniteSet(Owner) /\ Cardinality(Owner) \in Nat
BY FS_Subset, FS_CardinalityType, WorkerAssumption DEF Present, Grower, Owner

\* So can the flags that were left behind.
LEMMA LeakCounts ==
  ASSUME WorkerTypeOK
  PROVE  IsFiniteSet(leaked) /\ Cardinality(leaked) \in Nat /\ IsFiniteSet(1..Len(busy))
<1>1. Len(busy) \in Nat /\ leaked \subseteq 1..Len(busy)
  BY DEF WorkerTypeOK
<1>2. IsFiniteSet(1..Len(busy))
  BY <1>1, FS_Interval
<1> QED
  BY <1>1, <1>2, FS_Subset, FS_CardinalityType

\* When every flag is set there is an owner for every worker whose flag was not
\* left behind.
LEMMA AllBusy ==
  ASSUME WorkerTypeOK, FlagsAreOwners, \A i \in 1..Len(busy) : busy[i]
  PROVE  Len(busy) <= Cardinality(Owner) + Cardinality(leaked)
<1>0. Len(busy) \in Nat /\ leaked \subseteq 1..Len(busy)
  BY DEF WorkerTypeOK
<1> DEFINE f == [w \in Owner |-> host[w]]
           owned == (1..Len(busy)) \ leaked
<1>1. \A w \in Owner : host[w] \in owned
  BY DEF Owner, Hosted, WorkerTypeOK, FlagsAreOwners
<1>2. \A i \in owned : \E w \in Owner : host[w] = i
  BY DEF FlagsAreOwners
<1>3. f \in Surjection(Owner, owned)
  BY <1>1, <1>2 DEF Surjection
<1>4. Cardinality(owned) <= Cardinality(Owner) /\ IsFiniteSet(owned)
  BY <1>3, Counts, FS_Surjection
<1>5. Cardinality(1..Len(busy)) = Len(busy)
  <2>1. \A n \in Nat : Cardinality(1..n) = n
    <3> SUFFICES ASSUME NEW n \in Nat PROVE Cardinality(1..n) = n
      OBVIOUS
    <3>1. Cardinality(1..n) = IF 1 > n THEN 0 ELSE n - 1 + 1
      BY FS_Interval
    <3> QED
      BY <3>1
  <2> QED
    BY <1>0, <2>1
<1>6. Cardinality(owned) = Cardinality(1..Len(busy)) - Cardinality((1..Len(busy)) \cap leaked)
  BY LeakCounts, FS_Difference
<1>7. (1..Len(busy)) \cap leaked = leaked
  BY <1>0
<1>8. Cardinality(owned) = Len(busy) - Cardinality(leaked)
  BY <1>5, <1>6, <1>7
<1> HIDE DEF owned
<1> QED
  BY <1>0, <1>4, <1>8, LeakCounts, Counts

\* A step after which no VU is new, and no caller may grow the pool that could
\* not before.
LEMMA Shrinks ==
  ASSUME WorkerTypeOK, Sizing, Len(busy') = Len(busy), peak' = peak,
         IsFiniteSet(leaked'), leaked \subseteq leaked', Present' \subseteq Present, Grower' \subseteq Grower
  PROVE  Sizing'
<1>1. Cardinality(Present') <= Cardinality(Present) /\ Cardinality(Present') \in Nat
  BY Counts, FS_Subset, FS_CardinalityType
<1>2. Cardinality(Grower') <= Cardinality(Grower) /\ Cardinality(Grower') \in Nat
  BY Counts, FS_Subset, FS_CardinalityType
<1>3. Cardinality(leaked) <= Cardinality(leaked') /\ Cardinality(leaked') \in Nat
  BY FS_Subset, FS_CardinalityType
<1>4. Len(busy) \in Nat /\ peak \in Nat
  BY DEF WorkerTypeOK
<1> QED
  BY <1>1, <1>2, <1>3, <1>4, Counts, LeakCounts, WorkerAssumption DEF Sizing, MaxOf

\* A new VU raises the peak, if it has to.
LEMMA SpawnSizing ==
  ASSUME WorkerTypeOK, Sizing, NEW v \in Vu, SpawnVu(v)
  PROVE  Sizing'
<1>1. Present' = Present \cup {v} /\ v \notin Present /\ Grower' = Grower
  BY DEF SpawnVu, Present, Grower, WorkerTypeOK
<1>2. Cardinality(Present') = Cardinality(Present) + 1
  BY <1>1, Counts, FS_AddElement
<1>3. Len(busy) \in Nat /\ peak \in Nat /\ busy' = busy /\ leaked' = leaked
      /\ peak' = MaxOf(peak, Cardinality(Present) + 1)
  BY DEF SpawnVu, WorkerTypeOK
<1> QED
  BY <1>1, <1>2, <1>3, Counts, LeakCounts, WorkerAssumption DEF Sizing, MaxOf

\* A caller that found every flag set may grow the pool: the owners and the
\* callers that may grow it are different VUs, all there now.
LEMMA FindNoneSizing ==
  ASSUME WorkerTypeOK, FlagsAreOwners, Sizing, NEW v \in Vu, FindNone(v)
  PROVE  Sizing'
<1>1. Len(busy) <= Cardinality(Owner) + Cardinality(leaked)
  BY AllBusy DEF FindNone
<1>2. /\ Grower' = Grower \cup {v} /\ v \notin Grower /\ Present' = Present
      /\ Owner \cap Grower' = {} /\ Owner \cup Grower' \subseteq Present
  BY DEF FindNone, Grower, Present, Owner, WorkerTypeOK
<1>3. IsFiniteSet(Grower') /\ Cardinality(Grower') = Cardinality(Grower) + 1
  BY <1>2, Counts, FS_AddElement
<1>4. Cardinality(Owner \cup Grower') = Cardinality(Owner) + Cardinality(Grower')
  <2>1. Cardinality(Owner \cup Grower') =
          Cardinality(Owner) + Cardinality(Grower') - Cardinality(Owner \cap Grower')
    BY <1>3, Counts, FS_Union
  <2>2. Cardinality(Owner \cap Grower') = 0
    BY <1>2, FS_EmptySet
  <2> QED
    BY <2>1, <2>2, <1>3, Counts
<1>5. Cardinality(Owner \cup Grower') <= Cardinality(Present)
  BY <1>2, Counts, FS_Subset
<1>6. busy' = busy /\ peak' = peak /\ leaked' = leaked /\ Len(busy) \in Nat /\ peak \in Nat
  BY DEF FindNone, WorkerTypeOK, history
<1> QED
  BY <1>1, <1>2, <1>3, <1>4, <1>5, <1>6, Counts, LeakCounts, WorkerAssumption DEF Sizing, MaxOf

\* A worker that joins the pool was counted while its caller built it.
LEMMA InsertSizing ==
  ASSUME WorkerTypeOK, Sizing, NEW v \in Vu, Insert(v), Len(busy) = snap[v]
  PROVE  Sizing'
<1>1. Grower' = Grower \ {v} /\ v \in Grower /\ Present' = Present
  BY DEF Insert, Grower, Present, WorkerTypeOK
<1>2. Cardinality(Grower') = Cardinality(Grower) - 1
  BY <1>1, Counts, FS_RemoveElement
<1>3. Len(busy') = Len(busy) + 1 /\ peak' = peak /\ leaked' = leaked
      /\ Len(busy) \in Nat /\ peak \in Nat
  BY DEF Insert, WorkerTypeOK, history
<1> QED
  BY <1>1, <1>2, <1>3, Counts, LeakCounts, WorkerAssumption DEF Sizing, MaxOf

-----------------------------------------------------------------------------
(* The invariant.                                                          *)

\* The pool as it is built satisfies it.
LEMMA WorkerInitially == WorkerInit => WorkerInv
<1> SUFFICES ASSUME WorkerInit PROVE WorkerInv
  OBVIOUS
<1>1. PICK n \in 0..InitialWorkers :
        busy = [i \in 1..n |-> FALSE] /\ thread = [i \in 1..n |-> "runs"]
  BY DEF WorkerInit
<1>2. n \in Nat /\ n <= InitialWorkers
  BY WorkerAssumption
<1>3. /\ busy \in Seq(BOOLEAN) /\ Len(busy) = n
      /\ thread \in Seq({"runs", "notified", "exited"}) /\ Len(thread) = n
  BY <1>1, <1>2
<1>4. Present = {} /\ Grower = {} /\ Owner = {} /\ Hosted = {} /\ leaked = {}
  BY DEF WorkerInit, Present, Grower, Owner, Hosted
<1>5. WorkerTypeOK
  <2>1. /\ at \in [Vu -> Acquiring \cup {"out", "own", "wrapped", "inline"}]
        /\ host \in [Vu -> Nat] /\ snap \in [Vu -> Nat] /\ \A v \in Vu : snap[v] = 0
    BY DEF WorkerInit
  <2>2. growthFailed \in BOOLEAN /\ late \in BOOLEAN /\ polled = {} /\ blocked = {}
    BY DEF WorkerInit
  <2>3. drop \in {"no", "joining", "done"} /\ joined \in Nat /\ peak \in Nat
    BY DEF WorkerInit
  <2>4. \A v \in Vu : snap[v] <= Len(busy)
    BY <1>2, <1>3, <2>1
  <2> QED
    BY <1>3, <1>4, <2>1, <2>2, <2>3, <2>4, Zenon DEF WorkerTypeOK
<1>6. DropIsLast
  BY <1>1, <1>2, <1>3 DEF WorkerInit, DropIsLast
<1>7. FlagsAreOwners
  <2>1. \A i \in 1..Len(busy) : busy[i] = FALSE
    BY <1>1, <1>3
  <2> QED
    BY <1>4, <2>1, Zenon DEF FlagsAreOwners
<1>8. Sizing
  BY <1>2, <1>3, <1>4, FS_EmptySet, WorkerAssumption DEF WorkerInit, Sizing, MaxOf
<1> QED
  BY <1>5, <1>6, <1>7, <1>8 DEF WorkerInv

\* acquire_slot preserves it.
LEMMA AcquirePreserves ==
  ASSUME WorkerInv, NEW v \in Vu, SpawnVu(v) \/ Acquire(v)
  PROVE  WorkerInv'
<1>1. WorkerTypeOK' /\ DropIsLast' /\ drop = "no"
  BY AcquireTyped DEF WorkerInv
<1>2. FlagsAreOwners'
  BY <1>1, AcquireFlags DEF WorkerInv
<1>3. Sizing'
  <2> USE DEF WorkerInv
  <2>0. Len(busy) \in Nat
    BY DEF WorkerTypeOK
  <2>leak. leaked' = leaked /\ IsFiniteSet(leaked') /\ leaked \subseteq leaked'
    <3>1. leaked' = leaked
      BY DEF SpawnVu, Acquire, FindIdle, FindNone, ReadCurrent, Built, BuildFails, Insert, history
    <3> QED
      BY <3>1, LeakCounts
  <2>1. CASE SpawnVu(v)
    BY <2>1, SpawnSizing
  <2>2. CASE FindIdle(v)
    <3>1. PICK i \in 1..Len(busy) : busy' = [busy EXCEPT ![i] = TRUE]
      BY <2>2 DEF FindIdle
    <3>2. Len(busy') = Len(busy)
      BY <3>1 DEF WorkerTypeOK
    <3>3. Present' \subseteq Present /\ Grower' \subseteq Grower /\ peak' = peak
      BY <2>2 DEF FindIdle, Present, Grower, WorkerTypeOK, history
    <3> QED
      BY <2>leak, <3>2, <3>3, Shrinks
  <2>3. CASE FindNone(v)
    BY <1>1, <2>3, FindNoneSizing
  <2>4. CASE ReadCurrent(v)
    <3>1. /\ busy' = busy /\ peak' = peak /\ at[v] = "current"
          /\ \A w \in Vu : w # v => at'[w] = at[w]
      <4>1. CASE Len(busy) >= MaxWorkers \/ growthFailed
        BY <2>0, <2>4, <4>1, WrapTyped DEF ReadCurrent, history
      <4>2. CASE ~(Len(busy) >= MaxWorkers \/ growthFailed)
        BY <2>4, <4>2 DEF ReadCurrent, WorkerTypeOK, history
      <4> QED
        BY <4>1, <4>2
    <3>2. Present' \subseteq Present /\ Grower' \subseteq Grower
      BY <3>1 DEF Present, Grower
    <3> QED
      BY <2>leak, <3>1, <3>2, Shrinks
  <2>5. CASE Built(v)
    <3>1. Present' \subseteq Present /\ Grower' \subseteq Grower
      BY <2>5 DEF Built, Present, Grower, WorkerTypeOK
    <3> QED
      BY <2>leak, <2>5, <3>1, Shrinks DEF Built, history
  <2>6. CASE BuildFails(v)
    <3>1. snap[v] \in 0..Len(busy)
      BY <2>0 DEF WorkerTypeOK
    <3>2. at[v] = "build" /\ \A w \in Vu : w # v => at'[w] = at[w]
      BY <2>6, <3>1, WrapTyped DEF BuildFails
    <3>3. Present' \subseteq Present /\ Grower' \subseteq Grower
      BY <3>2 DEF Present, Grower
    <3> QED
      BY <2>leak, <2>6, <3>3, Shrinks DEF BuildFails, history
  <2>7. CASE Insert(v) /\ Len(busy) = snap[v]
    BY <2>7, InsertSizing
  <2>8. CASE Insert(v) /\ Len(busy) # snap[v]
    <3>1. Present' \subseteq Present /\ Grower' \subseteq Grower
      BY <2>8 DEF Insert, Present, Grower, WorkerTypeOK
    <3> QED
      BY <2>leak, <2>8, <3>1, Shrinks DEF Insert, history
  <2> QED
    BY <2>1, <2>2, <2>3, <2>4, <2>5, <2>6, <2>7, <2>8 DEF Acquire
<1> QED
  BY <1>1, <1>2, <1>3 DEF WorkerInv

\* So do the VUs on their threads.
LEMMA VuPreserves ==
  ASSUME WorkerInv, NEW v \in Vu,
         FirstPoll(v) \/ Block(v) \/ Unblock(v) \/ VuEnds(v) \/ AbortUnpolled(v)
  PROVE  WorkerInv'
<1>1. WorkerTypeOK' /\ DropIsLast'
  BY VuTyped DEF WorkerInv
<1>2. CASE FirstPoll(v) \/ Block(v) \/ Unblock(v)
  <2>1. UNCHANGED <<busy, at, host, peak, leaked>>
    BY <1>2 DEF FirstPoll, Block, Unblock, slotVars, history
  <2> QED
    BY <1>1, <2>1 DEF WorkerInv, FlagsAreOwners, Owner, Sizing, Present, Grower
<1>3. CASE VuEnds(v) \/ AbortUnpolled(v)
  <2>1. FlagsAreOwners'
    BY <1>3, EndFlags, AbortFlags DEF WorkerInv
  <2>2. /\ Len(busy') = Len(busy) /\ peak' = peak /\ leaked \subseteq leaked'
        /\ Present' \subseteq Present /\ Grower' \subseteq Grower
    BY <1>3 DEF VuEnds, AbortUnpolled, Leave, Release, Present, Grower, WorkerInv, WorkerTypeOK,
                history
  <2>3. IsFiniteSet(leaked')
    BY <1>1, <2>2, LeakCounts, FS_Subset DEF WorkerInv, WorkerTypeOK
  <2> QED
    BY <1>1, <2>1, <2>2, <2>3, Shrinks DEF WorkerInv
<1> QED
  BY <1>2, <1>3

\* And Drop.
LEMMA DropPreserves ==
  ASSUME WorkerInv, StartDrop \/ DropStep \/ \E i \in 1..Len(thread) : ThreadExits(i)
  PROVE  WorkerInv'
<1>1. WorkerTypeOK' /\ DropIsLast'
  BY DropTyped DEF WorkerInv
<1>2. CASE StartDrop \/ DropStep
  <2>1. UNCHANGED <<busy, at, host, peak, leaked>>
    BY <1>2 DEF StartDrop, DropStep, JoinBoundPasses, JoinOrDetach, DropReturns, slotVars, history
  <2> QED
    BY <1>1, <2>1 DEF WorkerInv, FlagsAreOwners, Owner, Sizing, Present, Grower
<1>3. ASSUME NEW i \in 1..Len(thread), ThreadExits(i) PROVE WorkerInv'
  <2>1. FlagsAreOwners'
    BY <1>3, ExitFlags DEF WorkerInv
  <2>2. /\ Len(busy') = Len(busy) /\ peak' = peak /\ leaked \subseteq leaked'
        /\ Present' \subseteq Present /\ Grower' \subseteq Grower
    BY <1>3 DEF ThreadExits, Release, Present, Grower, WorkerInv, WorkerTypeOK
  <2>3. IsFiniteSet(leaked')
    BY <1>1, <2>2, LeakCounts, FS_Subset DEF WorkerInv, WorkerTypeOK
  <2> QED
    BY <1>1, <2>1, <2>2, <2>3, Shrinks DEF WorkerInv
<1> QED
  BY <1>2, <1>3

\* Every step preserves the invariant.
LEMMA WorkerInductive ==
  ASSUME WorkerInv, [WorkerNext]_workerVars
  PROVE  WorkerInv'
<1>1. CASE UNCHANGED workerVars
  BY <1>1 DEF workerVars, slotVars, dropVars, history, WorkerInv, WorkerTypeOK, DropIsLast,
              FlagsAreOwners, Sizing, Hosted, Owner, Present, Grower
<1> QED
  BY <1>1, AcquirePreserves, VuPreserves, DropPreserves DEF WorkerNext

-----------------------------------------------------------------------------

\* VUWorkerPool never has more workers than cores, or than there were VUs at
\* once and flags of VUs aborted before their first poll, however the ramp loops race to grow it and however the VUs end.
THEOREM PoolSizedToPeak == WorkerSpec => []SizedToPeak
<1>1. WorkerInv => SizedToPeak
  BY Counts, LeakCounts, WorkerAssumption DEF WorkerInv, WorkerTypeOK, Sizing, SizedToPeak, MaxOf
<1> QED
  BY WorkerInitially, WorkerInductive, <1>1, PTL DEF WorkerSpec

\* A busy flag of VUWorkerPool is set exactly while one VU owns the worker, from
\* acquire_slot to BusyGuard's drop, or for ever when that VU was aborted before
\* its first poll made the guard: no two VUs own one thread, no flag is lost, and
\* none is left behind in another way.
THEOREM FlagsTellOwners == WorkerSpec => []FlagsAreOwners
<1>1. WorkerInv => FlagsAreOwners
  BY DEF WorkerInv
<1> QED
  BY WorkerInitially, WorkerInductive, <1>1, PTL DEF WorkerSpec

-----------------------------------------------------------------------------
(***************************************************************************)
(* The scenario runner.                                                    *)
(***************************************************************************)

\* Inside an item the index is one of an item, and the count of jumps is past
\* its cap only once the iteration is over.
Inside ==
  /\ walk.at \notin {"idle", "top"} => walk.index \in DOMAIN Items
  /\ walk.at # "idle" => walk.jumps <= MaxJumps

\* Until the request is sent or skipped, the flag is what the item's own
\* prerequest scripts left; the test scripts may set it for nobody.
FlagIsOwn ==
  /\ walk.at \in {"pre", "preError", "send"} /\ pm.skip => past.asked
  /\ past.skipped => past.asked

\* The response is the item's own, and there is none before the request.
ResponseIsOwn ==
  /\ pm.response # "other"
  /\ walk.at = "pre" => pm.response = "none"

\* An error is noted as soon as it is left behind, and a cut with it.
ErrorsAreNoted ==
  /\ walk.at \notin {"preError", "testError"} /\ past.threw /\ ~forceStop => walk.failures
  /\ past.cut => walk.failures

WalkInv == RunnerTypeOK /\ Inside /\ FlagIsOwn /\ ResponseIsOwn /\ ErrorsAreNoted

WalkType ==
  [at : {"idle", "top", "pre", "preError", "send", "test", "testError", "bottom"},
   index : 1..(Len(Items) + 1), script : Nat, jumps : 0..(MaxJumps + 1), failures : BOOLEAN]
PmType == [response : {"none", "own", "other"}, skip : BOOLEAN, next : Target]
PastType == [threw : BOOLEAN, cut : BOOLEAN, skipped : BOOLEAN, asked : BOOLEAN]

-----------------------------------------------------------------------------

\* What a script may leave behind.
LEMMA ScriptLeaves ==
  ASSUME WalkInv, NEW throws \in BOOLEAN, ScriptEffect(throws)
  PROVE  /\ pm' \in PmType /\ past' \in PastType
         /\ pm'.response = pm.response
         /\ past'.cut = past.cut /\ past'.skipped = past.skipped
         /\ past.asked => past'.asked
         /\ walk.at = "pre" /\ pm'.skip => pm.skip \/ past'.asked
         /\ ~throws => past'.threw = past.threw
<1>1. PICK next \in Target, skip \in BOOLEAN :
        /\ pm' = [pm EXCEPT !.next = IF next = NoJump THEN @ ELSE next, !.skip = @ \/ skip]
        /\ past' = [past EXCEPT !.threw = @ \/ throws, !.asked = @ \/ (skip /\ walk.at = "pre")]
  BY DEF ScriptEffect
<1>2. /\ pm \in [response : {"none", "own", "other"}, skip : BOOLEAN, next : Target]
      /\ past \in [threw : BOOLEAN, cut : BOOLEAN, skipped : BOOLEAN, asked : BOOLEAN]
  BY DEF WalkInv, RunnerTypeOK
<1>3. /\ pm' \in [response : {"none", "own", "other"}, skip : BOOLEAN, next : Target]
      /\ pm'.response = pm.response /\ pm'.skip = (pm.skip \/ skip)
  BY <1>1, <1>2
<1>4. /\ past' \in [threw : BOOLEAN, cut : BOOLEAN, skipped : BOOLEAN, asked : BOOLEAN]
      /\ past'.cut = past.cut /\ past'.skipped = past.skipped
      /\ past'.threw = (past.threw \/ throws)
      /\ past'.asked = (past.asked \/ (skip /\ walk.at = "pre"))
  BY <1>1, <1>2
<1> QED
  BY <1>2, <1>3, <1>4 DEF PmType, PastType

\* The parts of the state, typed.
LEMMA Typed ==
  ASSUME WalkInv
  PROVE  /\ walk \in WalkType /\ pm \in PmType /\ past \in PastType
         /\ Len(Items) \in Nat /\ DOMAIN Items = 1..Len(Items)
BY RunnerAssumption DEF WalkInv, RunnerTypeOK, WalkType, PmType, PastType

\* The parts make the whole.
LEMMA Whole ==
  ASSUME forceStop' \in BOOLEAN, iteration' \in 0..MaxIterations,
         walk' \in WalkType, pm' \in PmType, past' \in PastType,
         (Inside /\ FlagIsOwn /\ ResponseIsOwn /\ ErrorsAreNoted)'
  PROVE  WalkInv'
BY DEF WalkInv, RunnerTypeOK, WalkType, PmType, PastType

\* The scheduler only ever excuses.
LEMMA ForceStopKeeps == WalkInv /\ ForceStop => WalkInv'
BY DEF WalkInv, ForceStop, RunnerTypeOK, Inside, FlagIsOwn, ResponseIsOwn, ErrorsAreNoted

\* An iteration starts with nothing of the one before.
LEMMA StartKeeps == WalkInv /\ StartIteration => WalkInv'
BY RunnerAssumption
   DEF WalkInv, StartIteration, RunnerTypeOK, Inside, FlagIsOwn, ResponseIsOwn, ErrorsAreNoted,
       Target, NoJump

\* The top of the loop.
LEMMA TopKeeps == WalkInv /\ (EndWalk \/ BeginItem) => WalkInv'
<1> SUFFICES ASSUME WalkInv, EndWalk \/ BeginItem PROVE WalkInv'
  OBVIOUS
<1> USE RunnerAssumption DEF WalkInv, RunnerTypeOK, Inside, FlagIsOwn, ResponseIsOwn, ErrorsAreNoted
<1>1. CASE EndWalk
  BY <1>1 DEF EndWalk, GoTo
<1>2. CASE BeginItem
  <2>1. /\ walk' \in WalkType /\ walk'.at = "pre" /\ walk'.index = walk.index
        /\ walk'.jumps = walk.jumps /\ walk'.failures = walk.failures
    BY <1>2, Typed DEF BeginItem, GoTo, WalkType
  <2>2. pm' \in PmType /\ pm'.response = "none" /\ pm'.skip = FALSE
    BY <1>2, Typed DEF BeginItem, FreshPm, PmType
  <2>3. /\ past' \in PastType /\ past'.skipped = FALSE
        /\ past'.threw = past.threw /\ past'.cut = past.cut
    BY <1>2, Typed DEF BeginItem, PastType
  <2>4. walk.at = "top" /\ walk.index \in DOMAIN Items /\ UNCHANGED <<forceStop, iteration>>
    BY <1>2, Typed DEF BeginItem, WalkType
  <2> QED
    BY <2>1, <2>2, <2>3, <2>4, Whole
<1> QED
  BY <1>1, <1>2

\* A script of either phase.
LEMMA ScriptKeeps ==
  ASSUME WalkInv,
         NEW phase \in {"pre", "test"}, NEW count,
         NEW error \in {"preError", "testError"}, (error = "preError") = (phase = "pre"),
         RunScript(phase, count) \/ ScriptThrows(phase, count, error)
  PROVE  WalkInv'
<1> USE DEF WalkInv, RunnerTypeOK, Inside, FlagIsOwn, ResponseIsOwn, ErrorsAreNoted
<1>1. CASE RunScript(phase, count)
  <2>1. /\ walk' \in WalkType /\ walk'.at = phase /\ walk'.index = walk.index
        /\ walk'.jumps = walk.jumps /\ walk'.failures = walk.failures
    BY <1>1, Typed DEF RunScript, WalkType
  <2>2. walk.at = phase /\ ScriptEffect(FALSE) /\ UNCHANGED <<forceStop, iteration>>
    BY <1>1 DEF RunScript
  <2> QED
    BY <2>1, <2>2, ScriptLeaves, Whole
<1>2. CASE ScriptThrows(phase, count, error)
  <2>1. /\ walk' \in WalkType /\ walk'.at = error /\ walk'.index = walk.index
        /\ walk'.jumps = walk.jumps /\ walk'.failures = walk.failures
    BY <1>2, Typed DEF ScriptThrows, GoTo, WalkType
  <2>2. walk.at = phase /\ ScriptEffect(TRUE) /\ UNCHANGED <<forceStop, iteration>>
    BY <1>2 DEF ScriptThrows
  <2> QED
    BY <2>1, <2>2, ScriptLeaves, Whole
<1> QED
  BY <1>1, <1>2

\* An error becomes a failed check, unless the run is being stopped.
LEMMA NoteKeeps ==
  ASSUME WalkInv,
         NEW error \in {"preError", "testError"}, NEW next \in {"send", "bottom"},
         (error = "preError") = (next = "send"), NoteError(error, next)
  PROVE  WalkInv'
<1>1. /\ walk' \in WalkType /\ walk'.at = next /\ walk'.index = walk.index
      /\ walk'.jumps = walk.jumps /\ walk'.failures = (walk.failures \/ ~forceStop)
  BY Typed DEF NoteError, WalkType, WalkInv, RunnerTypeOK
<1>2. walk.at = error /\ UNCHANGED <<forceStop, iteration, pm, past>>
  BY DEF NoteError
<1> QED
  BY <1>1, <1>2, Typed, Whole
     DEF WalkInv, RunnerTypeOK, Inside, FlagIsOwn, ResponseIsOwn, ErrorsAreNoted

\* From the prerequest scripts to the test scripts.
LEMMA RequestKeeps == WalkInv /\ (EndPre \/ SkipItem \/ SendRequest \/ EndTest) => WalkInv'
<1> SUFFICES ASSUME WalkInv, EndPre \/ SkipItem \/ SendRequest \/ EndTest PROVE WalkInv'
  OBVIOUS
<1> USE DEF WalkInv, RunnerTypeOK, Inside, FlagIsOwn, ResponseIsOwn, ErrorsAreNoted, GoTo
<1>1. CASE EndPre
  BY <1>1 DEF EndPre
<1>2. CASE SkipItem
  BY <1>2 DEF SkipItem
<1>3. CASE SendRequest
  BY <1>3 DEF SendRequest
<1>4. CASE EndTest
  BY <1>4 DEF EndTest
<1> QED
  BY <1>1, <1>2, <1>3, <1>4

\* The bottom of the loop.
LEMMA BottomKeeps == WalkInv /\ (Jump \/ JumpOut \/ NextItem) => WalkInv'
<1> SUFFICES ASSUME WalkInv, Jump \/ JumpOut \/ NextItem PROVE WalkInv'
  OBVIOUS
<1> USE RunnerAssumption
    DEF WalkInv, RunnerTypeOK, Inside, FlagIsOwn, ResponseIsOwn, ErrorsAreNoted, GoTo, Target, NoJump
<1>0. ASSUME Jump \/ JumpOut
      PROVE  /\ pm' \in PmType /\ pm'.response = pm.response /\ pm'.skip = pm.skip
             /\ walk.at = "bottom" /\ UNCHANGED <<forceStop, iteration>>
  BY <1>0, Typed DEF Jump, JumpOut, PmType
<1>1. CASE Jump /\ walk.jumps < MaxJumps
  <2>1. /\ walk.jumps + 1 \in 0..(MaxJumps + 1) /\ walk.jumps + 1 <= MaxJumps
        /\ pm.next \in 1..(Len(Items) + 1)
    BY <1>1, Typed DEF Jump, WalkType
  <2>2. walk' = [walk EXCEPT !.at = "top", !.jumps = walk.jumps + 1, !.index = pm.next]
    BY <1>1 DEF Jump
  <2>3. /\ walk' \in WalkType /\ walk'.at = "top" /\ walk'.jumps = walk.jumps + 1
        /\ walk'.failures = walk.failures
    BY <2>1, <2>2, Typed DEF WalkType
  <2>4. past' = [past EXCEPT !.cut = FALSE]
    <3>1. (walk.jumps >= MaxJumps) = FALSE
      BY <1>1, Typed DEF WalkType
    <3> QED
      BY <1>1, <3>1 DEF Jump
  <2>5. /\ past' \in PastType /\ past'.cut = FALSE /\ past'.threw = past.threw
        /\ past'.skipped = past.skipped /\ past'.asked = past.asked
    BY <2>4, Typed DEF PastType
  <2> QED
    BY <1>0, <1>1, <2>1, <2>3, <2>5, Typed, Whole
<1>2. CASE Jump /\ ~(walk.jumps < MaxJumps)
  <2>1. walk.jumps + 1 \in 0..(MaxJumps + 1)
    BY <1>0, <1>2, Typed DEF WalkType
  <2>2. walk' = [walk EXCEPT !.at = "idle", !.jumps = walk.jumps + 1, !.failures = TRUE]
    BY <1>2 DEF Jump
  <2>3. walk' \in WalkType /\ walk'.at = "idle" /\ walk'.failures
    BY <2>1, <2>2, Typed DEF WalkType
  <2>4. past' = [past EXCEPT !.cut = TRUE]
    <3>1. (walk.jumps >= MaxJumps) = TRUE
      BY <1>2, Typed DEF WalkType
    <3> QED
      BY <1>2, <3>1 DEF Jump
  <2>5. /\ past' \in PastType /\ past'.skipped = past.skipped /\ past'.asked = past.asked
    BY <2>4, Typed DEF PastType
  <2> QED
    BY <1>0, <1>2, <2>3, <2>5, Whole
<1>3. CASE JumpOut
  BY <1>3 DEF JumpOut
<1>4. CASE NextItem
  <2>1. /\ walk' \in WalkType /\ walk'.at = "top" /\ walk'.jumps = walk.jumps
        /\ walk'.failures = walk.failures
    <3>1. walk.index + 1 \in 1..(Len(Items) + 1)
      BY <1>4, Typed DEF NextItem
    <3>2. walk' = [walk EXCEPT !.at = "top", !.index = walk.index + 1]
      BY <1>4 DEF NextItem
    <3> QED
      BY <3>1, <3>2, Typed DEF WalkType
  <2>2. walk.at = "bottom" /\ UNCHANGED <<forceStop, iteration, pm, past>>
    BY <1>4 DEF NextItem
  <2> QED
    BY <2>1, <2>2, Typed, Whole
<1> QED
  BY <1>1, <1>2, <1>3, <1>4

\* The invariant is inductive.
LEMMA WalkInvInductive == WalkInv /\ [RunnerNext]_runnerVars => WalkInv'
<1> SUFFICES ASSUME WalkInv, [RunnerNext]_runnerVars PROVE WalkInv'
  OBVIOUS
<1>1. CASE UNCHANGED runnerVars
  BY <1>1 DEF runnerVars, WalkInv, RunnerTypeOK, Inside, FlagIsOwn, ResponseIsOwn, ErrorsAreNoted
<1>2. CASE WalkStep
  BY <1>2, TopKeeps, ScriptKeeps, NoteKeeps, RequestKeeps, BottomKeeps DEF WalkStep
<1> QED
  BY <1>1, <1>2, ForceStopKeeps, StartKeeps DEF RunnerNext

\* The walk starts outside any item.
LEMMA WalkInitially == RunnerInit => WalkInv
<1>1. Len(Items) \in Nat /\ NoJump \in Target
  BY RunnerAssumption DEF Target
<1>2. SUFFICES ASSUME RunnerInit PROVE WalkInv
  OBVIOUS
<1>3. RunnerTypeOK
  <2>1. 1 \in 1..(Len(Items) + 1) /\ 0 \in 0..(MaxJumps + 1) /\ 0 \in 0..MaxIterations
    BY <1>1, RunnerAssumption
  <2>2. /\ walk \in WalkType /\ pm \in PmType /\ past \in PastType
    BY <1>1, <1>2, <2>1 DEF RunnerInit, WalkType, PmType, PastType
  <2> QED
    BY <1>2, <2>1, <2>2 DEF RunnerInit, RunnerTypeOK, WalkType, PmType, PastType
<1> QED
  BY <1>2, <1>3, RunnerAssumption
     DEF RunnerInit, WalkInv, Inside, FlagIsOwn, ResponseIsOwn, ErrorsAreNoted

(***************************************************************************)
(* Whatever the scripts of an item set, throw or jump over, and wherever   *)
(* the force-stop flag falls, no item is steered by another's response or  *)
(* skip flag, and an error that ends an iteration early is a failed check. *)
(***************************************************************************)
THEOREM WalkStaysHonest == RunnerSpec => []WalkIsHonest
<1>1. WalkInv => WalkIsHonest
  BY DEF WalkInv, WalkIsHonest, FlagIsOwn, ResponseIsOwn, ErrorsAreNoted
<1> QED
  BY WalkInitially, <1>1, WalkInvInductive, PTL DEF RunnerSpec

-----------------------------------------------------------------------------
(***************************************************************************)
(* The script agent.                                                       *)
(***************************************************************************)

\* A poll or a reply under way holds the callbacks of a script, and a script
\* inside the host function has a call.
Holding ==
  /\ \A p \in Poller : poll[p].at # "idle" => poll[p].of \in Script
  /\ \A r \in Replier : reply[r].at # "idle" =>
       reply[r].of \in Script /\ reply[r].call \in Call
  /\ \A s \in Script : script[s] \in {"insert", "enqueue", "notify", "wait", "forget"} =>
       nextId[s] > 0

(***************************************************************************)
(* What a poll has seen before it parks: it may find the queue empty, the  *)
(* script may push its call, and the wake-up must still be to come.        *)
(***************************************************************************)
WakeupToCome ==
  \A p \in Poller :
    poll[p].at \in {"flag", "park"} /\ ~poll[p].woken =>
      /\ pending[poll[p].of] # <<>> => script[poll[p].of] = "notify"
      /\ poll[p].at = "park" /\ ended[poll[p].of] => script[poll[p].of] = "wake"

\* The replies that hold the sender of call c of script s.
Sending(s, c) == {r \in Replier : reply[r] = [at |-> "send", of |-> s, call |-> c]}

(***************************************************************************)
(* A call id is fresh when its sender is inserted: nobody has taken,       *)
(* answered or inserted it before, although replies may name any id.       *)
(***************************************************************************)
FreshIds ==
  \A s \in Script, c \in Call :
    c >= nextId[s] \/ (script[s] = "insert" /\ c = ThisCall(s)) =>
      c \notin replies[s] /\ delivered[s][c] = 0 /\ Sending(s, c) = {}

ScriptInv == AgentTypeOK /\ Holding
WakeInv == ScriptInv /\ WakeupToCome
AnswerInv == ScriptInv /\ FreshIds /\ OneAnswer

-----------------------------------------------------------------------------
(* Types.                                                                  *)

\* A call under way has an id in range.
LEMMA CallInRange ==
  ASSUME ScriptInv, NEW s \in Script,
         script[s] \in {"insert", "enqueue", "notify", "wait", "forget"}
  PROVE  ThisCall(s) \in Call
BY ScriptAssumption DEF ScriptInv, AgentTypeOK, Holding, ThisCall, Call

PollRecord == [at : {"idle", "arm", "check", "flag", "park"},
               of : Script \cup {NoScript}, woken : BOOLEAN]
ReplyRecord == [at : {"idle", "take", "send"}, of : Script \cup {NoScript},
                call : Call \cup {-1}]

\* notify_waiters touches the waiters alone.
LEMMA WakenedPoll ==
  ASSUME ScriptInv, NEW s \in Script, poll' = Wakened(s)
  PROVE  /\ poll' \in [Poller -> PollRecord]
         /\ \A p \in Poller :
              /\ poll'[p].at = poll[p].at /\ poll'[p].of = poll[p].of
              /\ poll[p].woken => poll'[p].woken
              /\ poll[p].of = s /\ poll[p].at # "arm" => poll'[p].woken
<1>1. ASSUME NEW q \in PollRecord
      PROVE  /\ [q EXCEPT !.woken = TRUE] \in PollRecord
             /\ [q EXCEPT !.woken = TRUE].at = q.at /\ [q EXCEPT !.woken = TRUE].of = q.of
             /\ [q EXCEPT !.woken = TRUE].woken
  BY DEF PollRecord
<1>2. \A p \in Poller : poll[p] \in PollRecord
  BY DEF ScriptInv, AgentTypeOK, PollRecord
<1>3. \A p \in Poller : poll'[p] = IF poll[p].of = s /\ poll[p].at # "arm"
                                    THEN [poll[p] EXCEPT !.woken = TRUE] ELSE poll[p]
  BY DEF Wakened
<1>4. \A p \in Poller : poll'[p] \in PollRecord
  BY <1>1, <1>2, <1>3, Zenon
<1>5. poll' \in [Poller -> PollRecord]
  BY <1>4 DEF Wakened
<1>6. \A p \in Poller :
        /\ poll'[p].at = poll[p].at /\ poll'[p].of = poll[p].of
        /\ poll[p].woken => poll'[p].woken
        /\ poll[p].of = s /\ poll[p].at # "arm" => poll'[p].woken
  BY <1>1, <1>2, <1>3, Zenon
<1> QED
  BY <1>5, <1>6

\* The steps of a script.
LEMMA ScriptTyped ==
  ASSUME ScriptInv, NEW s \in Script, ScriptStepOf(s)
  PROVE  ScriptInv'
<1> USE DEF ScriptInv, AgentTypeOK, Holding, ScriptAt, ScriptStep
<1>1. CASE Register(s)
  BY <1>1 DEF Register
<1>2. CASE CallHost(s)
  BY <1>2, ScriptAssumption DEF CallHost
<1>3. CASE InsertSender(s)
  BY <1>3, CallInRange DEF InsertSender
<1>4. CASE Enqueue(s)
  BY <1>4, CallInRange DEF Enqueue
<1>5. CASE NotifyCall(s)
  BY WakenedPoll, <1>5 DEF NotifyCall, PollRecord
<1>6. CASE ReceiveAnswer(s)
  BY <1>6 DEF ReceiveAnswer
<1>7. CASE CallTimesOut(s)
  BY <1>7 DEF CallTimesOut
<1>8. CASE ForgetSender(s)
  BY <1>8 DEF ForgetSender
<1>9. CASE ScriptReturns(s)
  BY <1>9 DEF ScriptReturns
<1>10. CASE StoreDone(s)
  BY <1>10 DEF StoreDone
<1>11. CASE WakePollers(s)
  BY WakenedPoll, <1>11 DEF WakePollers, PollRecord
<1>12. CASE Deregister(s)
  BY <1>12 DEF Deregister
<1> QED
  BY <1>1, <1>2, <1>3, <1>4, <1>5, <1>6, <1>7, <1>8, <1>9, <1>10, <1>11, <1>12
     DEF ScriptStepOf

\* A record is its fields.
LEMMA PollFields ==
  ASSUME NEW q \in PollRecord, NEW v \in {"arm", "check", "flag", "park"}
  PROVE  /\ q = [at |-> q.at, of |-> q.of, woken |-> q.woken]
         /\ [q EXCEPT !.at = v] = [at |-> v, of |-> q.of, woken |-> q.woken]
<1>1. q = [at |-> q.at, of |-> q.of, woken |-> q.woken]
  BY DEF PollRecord
<1>2. [q EXCEPT !.at = v] = [at |-> v, of |-> q.of, woken |-> q.woken]
  BY DEF PollRecord
<1> QED
  BY <1>1, <1>2

(***************************************************************************)
(* What a step of a poll does: it changes its own record, takes at most    *)
(* the head of one queue, goes on to "flag" over an empty queue and parks  *)
(* over a run that is not done.                                            *)
(***************************************************************************)
PollMove(p, q) ==
  /\ poll' = [poll EXCEPT ![p] = q]
  /\ q.at # "idle" => q.of \in Script
  /\ q.at = "flag" => pending[q.of] = <<>>
  /\ q.at = "park" => /\ poll[p].at = "flag" /\ q.of = poll[p].of
                      /\ q.woken = poll[p].woken /\ ~ended[q.of]
  /\ \/ UNCHANGED pending
     \/ \E s \in Script : pending[s] # <<>> /\ pending' = [pending EXCEPT ![s] = Tail(@)]
  /\ UNCHANGED <<runs, script, runId, nextId, replies, ended, channel, reply, delivered>>

\* Every step of a poll is such a move.
LEMMA PollMoves ==
  ASSUME ScriptInv, NEW p \in Poller, PollNext(p) \/ PollStepOf(p) \/ PollAgesOut(p)
  PROVE  \E q \in PollRecord : PollMove(p, q)
<1> DEFINE rec(k, of, woken) == [at |-> k, of |-> of, woken |-> woken]
<1>0. /\ poll[p] \in PollRecord /\ poll[p] = rec(poll[p].at, poll[p].of, poll[p].woken)
      /\ poll[p].at # "idle" => poll[p].of \in Script
      /\ poll[p].of \in Script \cup {NoScript} /\ poll[p].woken \in BOOLEAN
  BY PollFields DEF ScriptInv, AgentTypeOK, Holding, PollRecord
<1>1. CASE PollNext(p)
  <2>1. PICK i \in RunId :
          runs[i] # NoScript /\ poll' = [poll EXCEPT ![p] = rec("arm", runs[i], FALSE)]
    BY <1>1 DEF PollNext
  <2>2. runs[i] \in Script
    BY <2>1 DEF ScriptInv, AgentTypeOK
  <2>3. PollMove(p, rec("arm", runs[i], FALSE))
    BY <1>1, <2>1, <2>2 DEF PollMove, PollNext, scriptVars
  <2>4. rec("arm", runs[i], FALSE) \in PollRecord
    BY <2>2 DEF PollRecord
  <2> QED
    BY <2>3, <2>4
<1>2. CASE ArmWaiter(p)
  <2>1. poll' = [poll EXCEPT ![p] = rec("check", poll[p].of, FALSE)]
    BY <1>2 DEF ArmWaiter
  <2>2. PollMove(p, rec("check", poll[p].of, FALSE))
    BY <1>0, <1>2, <2>1 DEF PollMove, ArmWaiter, scriptVars
  <2>3. rec("check", poll[p].of, FALSE) \in PollRecord
    BY <1>0 DEF PollRecord
  <2> QED
    BY <2>2, <2>3
<1>3. CASE CheckQueue(p) /\ pending[poll[p].of] # <<>>
  <2>1. PollMove(p, NoPoll)
    BY <1>0, <1>3 DEF PollMove, CheckQueue, NoPoll
  <2>2. NoPoll \in PollRecord
    BY DEF PollRecord, NoPoll
  <2> QED
    BY <2>1, <2>2
<1>4. CASE CheckQueue(p) /\ pending[poll[p].of] = <<>>
  <2>1. poll' = [poll EXCEPT ![p] = rec("flag", poll[p].of, poll[p].woken)]
    BY <1>0, <1>4 DEF CheckQueue
  <2>2. PollMove(p, rec("flag", poll[p].of, poll[p].woken))
    BY <1>0, <1>4, <2>1 DEF PollMove, CheckQueue
  <2>3. rec("flag", poll[p].of, poll[p].woken) \in PollRecord
    BY <1>0 DEF PollRecord
  <2> QED
    BY <2>2, <2>3
<1>5. CASE CheckDone(p) /\ ended[poll[p].of]
  <2>1. PollMove(p, NoPoll)
    BY <1>0, <1>5 DEF PollMove, CheckDone, NoPoll, scriptVars
  <2>2. NoPoll \in PollRecord
    BY DEF PollRecord, NoPoll
  <2> QED
    BY <2>1, <2>2
<1>6. CASE CheckDone(p) /\ ~ended[poll[p].of]
  <2>1. poll' = [poll EXCEPT ![p] = rec("park", poll[p].of, poll[p].woken)]
    <3>1. [poll[p] EXCEPT !.at = "park"] = rec("park", poll[p].of, poll[p].woken)
      BY <1>0, PollFields
    <3>2. poll' = [poll EXCEPT ![p] = [poll[p] EXCEPT !.at = "park"]]
      BY <1>6 DEF CheckDone
    <3> QED
      BY <3>1, <3>2
  <2>2. PollMove(p, rec("park", poll[p].of, poll[p].woken))
    BY <1>0, <1>6, <2>1 DEF PollMove, CheckDone, scriptVars
  <2>3. rec("park", poll[p].of, poll[p].woken) \in PollRecord
    BY <1>0 DEF PollRecord
  <2> QED
    BY <2>2, <2>3
<1>7. CASE PollWakes(p)
  <2>1. poll' = [poll EXCEPT ![p] = rec("arm", poll[p].of, poll[p].woken)]
    <3>1. [poll[p] EXCEPT !.at = "arm"] = rec("arm", poll[p].of, poll[p].woken)
      BY <1>0, PollFields
    <3>2. poll' = [poll EXCEPT ![p] = [poll[p] EXCEPT !.at = "arm"]]
      BY <1>7 DEF PollWakes
    <3> QED
      BY <3>1, <3>2
  <2>2. PollMove(p, rec("arm", poll[p].of, poll[p].woken))
    BY <1>0, <1>7, <2>1 DEF PollMove, PollWakes, scriptVars
  <2>3. rec("arm", poll[p].of, poll[p].woken) \in PollRecord
    BY <1>0 DEF PollRecord
  <2> QED
    BY <2>2, <2>3
<1>8. CASE PollAgesOut(p)
  <2>1. \/ pending' = [pending EXCEPT ![poll[p].of] = Tail(@)]
        \/ pending' = [pending EXCEPT ![poll[p].of] = @]
    BY <1>8 DEF PollAgesOut
  <2>2. pending \in [Script -> Seq(Call)]
    BY DEF ScriptInv, AgentTypeOK
  <2>3. PollMove(p, NoPoll)
    BY <1>0, <1>8, <2>1, <2>2 DEF PollMove, PollAgesOut, NoPoll
  <2>4. NoPoll \in PollRecord
    BY DEF PollRecord, NoPoll
  <2> QED
    BY <2>3, <2>4
<1> QED
  BY <1>1, <1>2, <1>3, <1>4, <1>5, <1>6, <1>7, <1>8 DEF PollStepOf

\* The steps of a poll keep the types.
LEMMA PollTyped ==
  ASSUME ScriptInv, NEW p \in Poller, NEW q \in PollRecord, PollMove(p, q)
  PROVE  ScriptInv'
<1>1. poll' = [poll EXCEPT ![p] = q] /\ (q.at # "idle" => q.of \in Script)
  BY DEF PollMove
<1>2. poll \in [Poller -> PollRecord]
  BY DEF ScriptInv, AgentTypeOK, PollRecord
<1>3. poll' \in [Poller -> PollRecord]
  BY <1>1, <1>2
<1>4. \A x \in Poller : poll'[x].at # "idle" => poll'[x].of \in Script
  BY <1>1, <1>2 DEF ScriptInv, Holding
<1>5. pending' \in [Script -> Seq(Call)]
  <2>1. pending \in [Script -> Seq(Call)]
    BY DEF ScriptInv, AgentTypeOK
  <2>2. CASE UNCHANGED pending
    BY <2>1, <2>2
  <2>3. CASE \E s \in Script : pending[s] # <<>> /\ pending' = [pending EXCEPT ![s] = Tail(@)]
    <3>1. PICK s \in Script : pending[s] # <<>> /\ pending' = [pending EXCEPT ![s] = Tail(@)]
      BY <2>3
    <3>2. Tail(pending[s]) \in Seq(Call)
      BY <2>1, <3>1
    <3> QED
      BY <2>1, <3>1, <3>2
  <2> QED
    BY <2>2, <2>3 DEF PollMove
<1> QED
  BY <1>3, <1>4, <1>5 DEF PollMove, ScriptInv, AgentTypeOK, Holding, PollRecord, ThisCall

(***************************************************************************)
(* What a step of a reply does, to the callbacks of script s and call c:   *)
(* it names them, takes their sender, finds no sender, or sends.           *)
(***************************************************************************)
ReplyRec(k, s, c) == [at |-> k, of |-> s, call |-> c]

Names(r, s, c) ==
  /\ reply[r].at = "idle" /\ reply' = [reply EXCEPT ![r] = ReplyRec("take", s, c)]
  /\ UNCHANGED <<replies, delivered, channel>>

Takes(r, s, c) ==
  /\ reply[r] = ReplyRec("take", s, c) /\ c \in replies[s]
  /\ reply' = [reply EXCEPT ![r] = ReplyRec("send", s, c)]
  /\ replies' = [replies EXCEPT ![s] = @ \ {c}] /\ UNCHANGED <<delivered, channel>>

Misses(r, s, c) ==
  /\ reply[r] = ReplyRec("take", s, c)
  /\ reply' = [reply EXCEPT ![r] = NoReply] /\ UNCHANGED <<replies, delivered, channel>>

Sends(r, s, c) ==
  /\ reply[r] = ReplyRec("send", s, c) /\ reply' = [reply EXCEPT ![r] = NoReply]
  /\ delivered' = [delivered EXCEPT ![s][c] = @ + 1]
  /\ channel' \in [Script -> SUBSET Call] /\ UNCHANGED replies
  /\ \A x \in Script : \A d \in channel'[x] : d \in channel[x] \/ (x = s /\ d = c)

ReplyMove(r, s, c) ==
  /\ Names(r, s, c) \/ Takes(r, s, c) \/ Misses(r, s, c) \/ Sends(r, s, c)
  /\ UNCHANGED <<runs, script, runId, nextId, pending, ended, poll>>

\* A reply's record is its fields.
LEMMA ReplyFields ==
  ASSUME NEW x \in ReplyRecord
  PROVE  /\ x = ReplyRec(x.at, x.of, x.call)
         /\ [x EXCEPT !.at = "send"] = ReplyRec("send", x.of, x.call)
<1>1. x = ReplyRec(x.at, x.of, x.call)
  BY DEF ReplyRecord, ReplyRec
<1>2. [x EXCEPT !.at = "send"] = ReplyRec("send", x.of, x.call)
  BY DEF ReplyRecord, ReplyRec
<1> QED
  BY <1>1, <1>2

\* Every step of a reply is such a move.
LEMMA ReplyMoves ==
  ASSUME ScriptInv, NEW r \in Replier, PostReply(r) \/ TakeSender(r) \/ SendAnswer(r)
  PROVE  \E s \in Script, c \in Call : ReplyMove(r, s, c)
<1> DEFINE s == reply[r].of
           c == reply[r].call
<1>0. /\ reply[r] \in ReplyRecord
      /\ reply[r].at # "idle" => s \in Script /\ c \in Call
  BY DEF ScriptInv, AgentTypeOK, Holding, ReplyRecord
<1>1. CASE PostReply(r)
  <2>1. PICK i \in RunId, d \in Call :
          runs[i] # NoScript /\ reply' = [reply EXCEPT ![r] = ReplyRec("take", runs[i], d)]
    BY <1>1 DEF PostReply, ReplyRec
  <2>2. runs[i] \in Script
    BY <2>1 DEF ScriptInv, AgentTypeOK
  <2>3. ReplyMove(r, runs[i], d)
    BY <1>1, <2>1 DEF ReplyMove, Names, PostReply, scriptVars
  <2> QED
    BY <2>2, <2>3
<1>2. CASE TakeSender(r)
  <2>1. reply[r] = ReplyRec("take", s, c) /\ s \in Script /\ c \in Call
    BY <1>0, <1>2, ReplyFields DEF TakeSender
  <2>2. /\ replies' = [replies EXCEPT ![s] = @ \ {c}]
        /\ reply' = [reply EXCEPT ![r] = IF c \in replies[s] THEN [reply[r] EXCEPT !.at = "send"]
                                                             ELSE NoReply]
        /\ UNCHANGED <<runs, script, runId, nextId, pending, ended, channel, poll, delivered>>
    BY <1>2 DEF TakeSender
  <2>3. CASE c \in replies[s]
    <3>1. reply' = [reply EXCEPT ![r] = ReplyRec("send", s, c)]
      BY <1>0, <2>2, <2>3, ReplyFields
    <3>2. ReplyMove(r, s, c)
      BY <2>1, <2>2, <2>3, <3>1 DEF ReplyMove, Takes
    <3> QED
      BY <2>1, <3>2
  <2>4. CASE c \notin replies[s]
    <3>1. reply' = [reply EXCEPT ![r] = NoReply]
      BY <2>2, <2>4
    <3>2. replies' = replies
      BY <2>1, <2>2, <2>4 DEF ScriptInv, AgentTypeOK
    <3>3. ReplyMove(r, s, c)
      BY <2>1, <2>2, <3>1, <3>2 DEF ReplyMove, Misses
    <3> QED
      BY <2>1, <3>3
  <2> QED
    BY <2>3, <2>4
<1>3. CASE SendAnswer(r)
  <2>1. reply[r] = ReplyRec("send", s, c) /\ s \in Script /\ c \in Call
    BY <1>0, <1>3, ReplyFields DEF SendAnswer
  <2>2. /\ channel' = [channel EXCEPT ![s] = @ \cup {c}] \/ channel' = [channel EXCEPT ![s] = @]
        /\ delivered' = [delivered EXCEPT ![s][c] = @ + 1]
        /\ reply' = [reply EXCEPT ![r] = NoReply]
        /\ UNCHANGED <<runs, script, runId, nextId, replies, pending, ended, poll>>
    BY <1>3 DEF SendAnswer
  <2>3. channel' \in [Script -> SUBSET Call]
    <3>1. channel \in [Script -> SUBSET Call]
      BY DEF ScriptInv, AgentTypeOK
    <3> HIDE DEF s, c
    <3> QED
      BY <2>1, <2>2, <3>1
  <2>4. ReplyMove(r, s, c)
    BY <2>1, <2>2, <2>3 DEF ReplyMove, Sends
  <2> QED
    BY <2>1, <2>4
<1> QED
  BY <1>1, <1>2, <1>3

\* The steps of a reply keep the types.
LEMMA ReplyTyped ==
  ASSUME ScriptInv, NEW r \in Replier, NEW s \in Script, NEW c \in Call, ReplyMove(r, s, c)
  PROVE  ScriptInv'
<1>1. reply \in [Replier -> ReplyRecord]
  BY DEF ScriptInv, AgentTypeOK, ReplyRecord
<1>2. PICK x \in ReplyRecord :
        reply' = [reply EXCEPT ![r] = x] /\ (x.at # "idle" => x.of \in Script /\ x.call \in Call)
  <2>1. /\ ReplyRec("take", s, c) \in ReplyRecord /\ ReplyRec("send", s, c) \in ReplyRecord
        /\ NoReply \in ReplyRecord /\ NoReply.at = "idle"
        /\ \A k \in {"take", "send"} : ReplyRec(k, s, c).of = s /\ ReplyRec(k, s, c).call = c
    BY DEF ReplyRec, ReplyRecord, NoReply
  <2>2. \/ reply' = [reply EXCEPT ![r] = ReplyRec("take", s, c)]
        \/ reply' = [reply EXCEPT ![r] = ReplyRec("send", s, c)]
        \/ reply' = [reply EXCEPT ![r] = NoReply]
    BY DEF ReplyMove, Names, Takes, Misses, Sends
  <2> QED
    BY <2>1, <2>2, Zenon
<1>3. reply' \in [Replier -> ReplyRecord]
  BY <1>1, <1>2
<1>4. \A y \in Replier : reply'[y].at # "idle" => reply'[y].of \in Script /\ reply'[y].call \in Call
  BY <1>1, <1>2 DEF ScriptInv, Holding
<1>5. replies' \in [Script -> SUBSET Call]
  <2>1. replies \in [Script -> SUBSET Call]
    BY DEF ScriptInv, AgentTypeOK
  <2>2. replies' = replies \/ replies' = [replies EXCEPT ![s] = @ \ {c}]
    BY DEF ReplyMove, Names, Takes, Misses, Sends
  <2> QED
    BY <2>1, <2>2
<1>6. channel' \in [Script -> SUBSET Call]
  BY DEF ReplyMove, Names, Takes, Misses, Sends, ScriptInv, AgentTypeOK
<1>7. delivered' \in [Script -> [Call -> Nat]]
  <2>1. delivered \in [Script -> [Call -> Nat]]
    BY DEF ScriptInv, AgentTypeOK
  <2>2. delivered' = delivered \/ delivered' = [delivered EXCEPT ![s][c] = @ + 1]
    BY DEF ReplyMove, Names, Takes, Misses, Sends
  <2> QED
    BY <2>1, <2>2
<1> QED
  BY <1>3, <1>4, <1>5, <1>6, <1>7 DEF ReplyMove, ScriptInv, AgentTypeOK, Holding, ReplyRecord

-----------------------------------------------------------------------------
(* No wake-up is lost.                                                     *)

\* The script pushes, or stores done, before it wakes.
LEMMA ScriptKeepsWakeup ==
  ASSUME WakeInv, NEW s \in Script, ScriptStepOf(s)
  PROVE  WakeupToCome'
<1>0. /\ script \in [Script -> ScriptStep] /\ ended \in [Script -> BOOLEAN]
      /\ pending \in [Script -> Seq(Call)]
      /\ \A p \in Poller : poll[p].at # "idle" => poll[p].of \in Script
  BY DEF WakeInv, ScriptInv, AgentTypeOK, Holding
<1>1. CASE /\ script[s] \notin {"notify", "wake"} /\ UNCHANGED <<pending, ended, poll>>
           /\ \E to \in ScriptStep : script' = [script EXCEPT ![s] = to]
  BY <1>0, <1>1 DEF WakeInv, WakeupToCome
<1>2. CASE Enqueue(s)
  <2>1. script[s] = "enqueue" /\ script' = [script EXCEPT ![s] = "notify"]
        /\ pending' = [pending EXCEPT ![s] = Append(@, ThisCall(s))] /\ UNCHANGED <<ended, poll>>
    BY <1>2 DEF Enqueue, ScriptAt
  <2>2. \A x \in Script : x # s => pending'[x] = pending[x] /\ script'[x] = script[x]
    BY <1>0, <2>1
  <2>3. script'[s] = "notify"
    BY <1>0, <2>1
  <2> QED
    BY <1>0, <2>1, <2>2, <2>3 DEF WakeInv, WakeupToCome
<1>3. CASE StoreDone(s)
  <2>1. script[s] = "finish" /\ script' = [script EXCEPT ![s] = "wake"]
        /\ ended' = [ended EXCEPT ![s] = TRUE] /\ UNCHANGED <<pending, poll>>
    BY <1>3 DEF StoreDone, ScriptAt
  <2>2. \A x \in Script : x # s => ended'[x] = ended[x] /\ script'[x] = script[x]
    BY <1>0, <2>1
  <2>3. script'[s] = "wake"
    BY <1>0, <2>1
  <2> QED
    BY <1>0, <2>1, <2>2, <2>3 DEF WakeInv, WakeupToCome
<1>4. CASE NotifyCall(s) \/ WakePollers(s)
  <2>1. poll' = Wakened(s) /\ UNCHANGED <<pending, ended>>
        /\ \A x \in Script : x # s => script'[x] = script[x]
    BY <1>0, <1>4 DEF NotifyCall, WakePollers, ScriptAt
  <2>2. \A p \in Poller :
          /\ poll'[p].at = poll[p].at /\ poll'[p].of = poll[p].of
          /\ poll[p].woken => poll'[p].woken
          /\ poll[p].of = s /\ poll[p].at # "arm" => poll'[p].woken
    BY <2>1, WakenedPoll DEF WakeInv
  <2> QED
    BY <1>0, <2>1, <2>2 DEF WakeInv, WakeupToCome
<1>5. CASE Register(s) \/ CallHost(s) \/ InsertSender(s) \/ ReceiveAnswer(s) \/ CallTimesOut(s)
           \/ ForgetSender(s) \/ ScriptReturns(s) \/ Deregister(s)
  <2>1. /\ script[s] \notin {"notify", "wake"} /\ UNCHANGED <<pending, ended, poll>>
        /\ \E to \in ScriptStep : script' = [script EXCEPT ![s] = to]
    BY <1>5 DEF Register, CallHost, InsertSender, ReceiveAnswer, CallTimesOut, ForgetSender,
                ScriptReturns, Deregister, ScriptAt, ScriptStep
  <2> QED
    BY <1>1, <2>1
<1> QED
  BY <1>2, <1>3, <1>4, <1>5 DEF ScriptStepOf

\* A poll looks after its waiter exists.
LEMMA PollKeepsWakeup ==
  ASSUME WakeInv, NEW p \in Poller, NEW q \in PollRecord, PollMove(p, q)
  PROVE  WakeupToCome'
<1>0. /\ poll \in [Poller -> PollRecord] /\ pending \in [Script -> Seq(Call)]
      /\ \A x \in Poller : poll[x].at # "idle" => poll[x].of \in Script
  BY DEF WakeInv, ScriptInv, AgentTypeOK, Holding, PollRecord
<1>1. /\ poll' = [poll EXCEPT ![p] = q] /\ (q.at # "idle" => q.of \in Script)
      /\ q.at = "flag" => pending[q.of] = <<>>
      /\ q.at = "park" => /\ poll[p].at = "flag" /\ q.of = poll[p].of
                          /\ q.woken = poll[p].woken /\ ~ended[q.of]
      /\ UNCHANGED <<script, ended>>
  BY DEF PollMove
<1>2. \A s \in Script : pending[s] = <<>> => pending'[s] = <<>>
  <2>1. CASE UNCHANGED pending
    BY <2>1
  <2>2. CASE \E s \in Script : pending[s] # <<>> /\ pending' = [pending EXCEPT ![s] = Tail(@)]
    BY <1>0, <2>2
  <2> QED
    BY <2>1, <2>2 DEF PollMove
<1>3. ASSUME NEW x \in Poller, poll'[x].at \in {"flag", "park"}, ~poll'[x].woken
      PROVE  /\ pending'[poll'[x].of] # <<>> => script'[poll'[x].of] = "notify"
             /\ poll'[x].at = "park" /\ ended'[poll'[x].of] => script'[poll'[x].of] = "wake"
  <2>1. CASE x = p
    <3>1. poll'[x] = q
      BY <1>0, <1>1, <2>1
    <3> QED
      BY <1>1, <1>2, <1>3, <2>1, <3>1 DEF WakeInv, WakeupToCome
  <2>2. CASE x # p
    <3>1. poll'[x] = poll[x]
      BY <1>0, <1>1, <2>2
    <3> QED
      BY <1>0, <1>1, <1>2, <1>3, <3>1 DEF WakeInv, WakeupToCome
  <2> QED
    BY <2>1, <2>2
<1> QED
  BY <1>3 DEF WakeupToCome

\* A reply touches neither the queue nor the waiters.
LEMMA ReplyKeepsWakeup ==
  ASSUME WakeInv, NEW r \in Replier, NEW s \in Script, NEW c \in Call, ReplyMove(r, s, c)
  PROVE  WakeupToCome'
BY DEF ReplyMove, WakeInv, WakeupToCome

\* The types hold initially and are kept by every step.
LEMMA ScriptInvInitially == AgentInit => ScriptInv
BY ScriptAssumption DEF AgentInit, ScriptInv, AgentTypeOK, Holding, ScriptStep, NoPoll, NoReply, Call

\* The invariant is inductive.
LEMMA WakeInvInductive == WakeInv /\ [AgentNext]_agentVars => WakeInv'
<1> SUFFICES ASSUME WakeInv, [AgentNext]_agentVars PROVE WakeInv'
  OBVIOUS
<1>1. ASSUME NEW s \in Script, ScriptStepOf(s) PROVE WakeInv'
  BY <1>1, ScriptTyped, ScriptKeepsWakeup DEF WakeInv
<1>2. ASSUME NEW p \in Poller, PollNext(p) \/ PollStepOf(p) \/ PollAgesOut(p) PROVE WakeInv'
  <2>1. PICK q \in PollRecord : PollMove(p, q)
    BY <1>2, PollMoves DEF WakeInv
  <2> QED
    BY <2>1, PollTyped, PollKeepsWakeup DEF WakeInv
<1>3. ASSUME NEW r \in Replier, PostReply(r) \/ TakeSender(r) \/ SendAnswer(r) PROVE WakeInv'
  <2>1. PICK s \in Script, c \in Call : ReplyMove(r, s, c)
    BY <1>3, ReplyMoves DEF WakeInv
  <2> QED
    BY <2>1, ReplyTyped, ReplyKeepsWakeup DEF WakeInv
<1>4. CASE UNCHANGED agentVars
  BY <1>4 DEF agentVars, WakeInv, ScriptInv, AgentTypeOK, Holding, WakeupToCome
<1> QED
  BY <1>1, <1>2, <1>3, <1>4 DEF AgentNext

\* Nobody polls at the start.
LEMMA WakeInitially == AgentInit => WakeInv
BY ScriptInvInitially DEF AgentInit, WakeInv, WakeupToCome, NoPoll

(***************************************************************************)
(* No wake-up of a long poll is lost, for any number of scripts, polls and *)
(* replies: the waiter is created before the queue and the done flag are   *)
(* read, and the script pushes or stores before it notifies.               *)
(***************************************************************************)
THEOREM NoWakeupLost == AgentSpec => []NoLostWakeup
<1>1. WakeInv => NoLostWakeup
  BY DEF WakeInv, WakeupToCome, NoLostWakeup
<1> QED
  BY <1>1, WakeInitially, WakeInvInductive, PTL DEF AgentSpec

-----------------------------------------------------------------------------
(* A call is answered once.                                                *)

\* The right to answer call c of script s: answers told "delivered", replies
\* that hold its sender, and its sender.
Rights(s, c) ==
  delivered[s][c] + Cardinality(Sending(s, c)) + (IF c \in replies[s] THEN 1 ELSE 0)

\* The replies that hold a sender can be counted.
LEMMA SendingFinite ==
  ASSUME NEW s, NEW c
  PROVE  IsFiniteSet(Sending(s, c)) /\ Cardinality(Sending(s, c)) \in Nat
<1>1. IsFiniteSet(Sending(s, c))
  BY ScriptAssumption, FS_Subset DEF Sending
<1> QED
  BY <1>1, FS_CardinalityType

\* A script inserts a sender under a fresh id only.
LEMMA ScriptKeepsAnswers ==
  ASSUME AnswerInv, NEW s \in Script, ScriptStepOf(s)
  PROVE  (FreshIds /\ OneAnswer)'
<1>0. /\ script \in [Script -> ScriptStep] /\ nextId \in [Script -> 0..MaxCalls]
      /\ replies \in [Script -> SUBSET Call] /\ delivered \in [Script -> [Call -> Nat]]
  BY DEF AnswerInv, ScriptInv, AgentTypeOK
<1>1. UNCHANGED <<reply, delivered>> /\ \A x, c : Sending(x, c)' = Sending(x, c)
  BY DEF ScriptStepOf, Register, CallHost, InsertSender, Enqueue, NotifyCall, ReceiveAnswer,
         CallTimesOut, ForgetSender, ScriptReturns, StoreDone, WakePollers, Deregister, Sending
<1>2. CASE CallHost(s)
  <2>1. /\ script' = [script EXCEPT ![s] = "insert"] /\ nextId' = [nextId EXCEPT ![s] = @ + 1]
        /\ UNCHANGED replies
    BY <1>2 DEF CallHost, ScriptAt
  <2>2. FreshIds'
    <3>1. SUFFICES ASSUME NEW x \in Script, NEW c \in Call,
                          c >= nextId'[x] \/ (script'[x] = "insert" /\ c = nextId'[x] - 1)
                   PROVE  c \notin replies[x] /\ delivered[x][c] = 0 /\ Sending(x, c) = {}
      BY <1>1, <2>1 DEF FreshIds, ThisCall
    <3>2. c >= nextId[x] \/ (script[x] = "insert" /\ c = nextId[x] - 1)
      BY <1>0, <2>1, <3>1, ScriptAssumption DEF Call
    <3> QED
      BY <3>2 DEF AnswerInv, FreshIds, ThisCall
  <2>3. OneAnswer'
    BY <1>1, <2>1 DEF AnswerInv, OneAnswer, Sending
  <2> QED
    BY <2>2, <2>3
<1>3. CASE InsertSender(s)
  <2>1. /\ script[s] = "insert" /\ script' = [script EXCEPT ![s] = "enqueue"]
        /\ replies' = [replies EXCEPT ![s] = @ \cup {ThisCall(s)}] /\ UNCHANGED nextId
    BY <1>3 DEF InsertSender, ScriptAt
  <2>2. ThisCall(s) \in Call
    BY <2>1, CallInRange DEF AnswerInv
  <2>3. delivered[s][ThisCall(s)] = 0 /\ Sending(s, ThisCall(s)) = {}
    BY <2>1, <2>2 DEF AnswerInv, FreshIds
  <2>4. FreshIds'
    <3>1. SUFFICES ASSUME NEW x \in Script, NEW c \in Call,
                          c >= nextId[x] \/ (script'[x] = "insert" /\ c = nextId[x] - 1)
                   PROVE  c \notin replies'[x] /\ delivered[x][c] = 0 /\ Sending(x, c) = {}
      BY <1>1, <2>1 DEF FreshIds, ThisCall
    <3>2. c >= nextId[x] \/ (script[x] = "insert" /\ c = nextId[x] - 1)
      BY <1>0, <2>1, <3>1
    <3>3. c \notin replies[x] /\ delivered[x][c] = 0 /\ Sending(x, c) = {}
      BY <3>2 DEF AnswerInv, FreshIds, ThisCall
    <3>4. ~(x = s /\ c = ThisCall(s))
      BY <1>0, <2>1, <3>1, ScriptAssumption DEF Call, ThisCall
    <3> QED
      BY <1>0, <2>1, <3>3, <3>4
  <2>5. ASSUME NEW x \in Script, NEW c \in Call PROVE Rights(x, c)' <= 1
    <3>1. CASE x = s /\ c = ThisCall(s)
      <4>1. Cardinality(Sending(x, c)') = 0 /\ delivered'[x][c] = 0
        BY <1>1, <2>3, <3>1, FS_EmptySet
      <4>2. c \in replies'[x]
        BY <1>0, <2>1, <3>1
      <4> QED
        BY <4>1, <4>2 DEF Rights
    <3>2. CASE ~(x = s /\ c = ThisCall(s))
      <4>1. c \in replies'[x] <=> c \in replies[x]
        BY <1>0, <2>1, <3>2
      <4> QED
        BY <1>1, <4>1 DEF AnswerInv, OneAnswer, Rights, Sending
    <3> QED
      BY <3>1, <3>2
  <2> QED
    BY <2>4, <2>5 DEF OneAnswer, Rights, Sending
<1>4. CASE /\ \E to \in ScriptStep \ {"insert"} : script' = [script EXCEPT ![s] = to]
           /\ UNCHANGED nextId /\ \A x \in Script : replies'[x] \subseteq replies[x]
  <2>1. FreshIds'
    BY <1>0, <1>1, <1>4 DEF AnswerInv, FreshIds, ThisCall
  <2>2. ASSUME NEW x \in Script, NEW c \in Call PROVE Rights(x, c)' <= 1
    <3>1. Rights(x, c) <= 1 /\ delivered[x][c] \in Nat /\ Cardinality(Sending(x, c)) \in Nat
      BY <1>0, SendingFinite DEF AnswerInv, OneAnswer, Rights, Sending
    <3>2. c \in replies'[x] => c \in replies[x]
      BY <1>4
    <3> QED
      BY <1>1, <3>1, <3>2 DEF Rights
  <2> QED
    BY <2>1, <2>2 DEF OneAnswer, Rights, Sending
<1>5. CASE ForgetSender(s)
  <2>1. /\ script' = [script EXCEPT ![s] = "run"] /\ UNCHANGED nextId
        /\ replies' = [replies EXCEPT ![s] = @ \ {ThisCall(s)}]
    BY <1>5 DEF ForgetSender, ScriptAt
  <2>2. \A x \in Script : replies'[x] \subseteq replies[x]
    BY <1>0, <2>1
  <2> QED
    BY <1>4, <2>1, <2>2 DEF ScriptStep
<1>6. CASE Register(s) \/ Enqueue(s) \/ NotifyCall(s) \/ ReceiveAnswer(s) \/ CallTimesOut(s)
           \/ ScriptReturns(s) \/ StoreDone(s) \/ WakePollers(s) \/ Deregister(s)
  <2>1. /\ \E to \in ScriptStep \ {"insert"} : script' = [script EXCEPT ![s] = to]
        /\ UNCHANGED <<nextId, replies>>
    BY <1>6 DEF Register, Enqueue, NotifyCall, ReceiveAnswer, CallTimesOut, ScriptReturns,
                StoreDone, WakePollers, Deregister, ScriptAt, ScriptStep
  <2> QED
    BY <1>4, <2>1
<1> QED
  BY <1>2, <1>3, <1>5, <1>6 DEF ScriptStepOf

\* A reply moves the one right to answer, and makes none.
LEMMA ReplyKeepsAnswers ==
  ASSUME AnswerInv, NEW r \in Replier, NEW s \in Script, NEW c \in Call, ReplyMove(r, s, c)
  PROVE  (FreshIds /\ OneAnswer)'
<1>0. /\ reply \in [Replier -> ReplyRecord]
      /\ replies \in [Script -> SUBSET Call] /\ delivered \in [Script -> [Call -> Nat]]
  BY DEF AnswerInv, ScriptInv, AgentTypeOK, ReplyRecord
<1>1. \A x \in Script, d \in Call :
        Rights(x, d) <= 1 /\ delivered[x][d] \in Nat /\ Cardinality(Sending(x, d)) \in Nat
  BY <1>0, SendingFinite DEF AnswerInv, OneAnswer, Rights, Sending
<1>2. UNCHANGED <<script, nextId>>
  BY DEF ReplyMove
<1>3. \A k \in {"take", "send"}, x \in Script, d \in Call :
        /\ ReplyRec(k, x, d) = ReplyRec("send", s, c) => k = "send" /\ x = s /\ d = c
        /\ ReplyRec("send", x, d) = ReplyRec(k, s, c) => k = "send" /\ x = s /\ d = c
        /\ NoReply # ReplyRec("send", x, d)
  BY DEF ReplyRec, NoReply
<1>4. CASE Names(r, s, c) \/ Misses(r, s, c)
  <2>1. UNCHANGED <<replies, delivered>>
    BY <1>4 DEF Names, Misses
  <2>2. \A x \in Script, d \in Call : Sending(x, d)' = Sending(x, d)
    <3>1. SUFFICES ASSUME NEW x \in Script, NEW d \in Call
                   PROVE  \A y \in Replier : reply'[y] = ReplyRec("send", x, d)
                                            <=> reply[y] = ReplyRec("send", x, d)
      BY DEF Sending, ReplyRec
    <3>2. reply'[r] = ReplyRec("take", s, c) \/ reply'[r] = NoReply
      BY <1>0, <1>4 DEF Names, Misses
    <3>3. reply'[r] # ReplyRec("send", x, d)
      BY <1>3, <3>2
    <3>4. reply[r] # ReplyRec("send", x, d)
      BY <1>4 DEF Names, Misses, ReplyRec
    <3>5. \A y \in Replier : y # r => reply'[y] = reply[y]
      BY <1>0, <1>4 DEF Names, Misses
    <3> QED
      BY <3>3, <3>4, <3>5
  <2>3. FreshIds'
    BY <1>2, <2>1, <2>2 DEF AnswerInv, FreshIds, ThisCall
  <2>4. OneAnswer'
    BY <2>1, <2>2 DEF AnswerInv, OneAnswer, Sending
  <2> QED
    BY <2>3, <2>4
<1>5. CASE Takes(r, s, c)
  <2>1. /\ reply[r] = ReplyRec("take", s, c) /\ c \in replies[s]
        /\ reply' = [reply EXCEPT ![r] = ReplyRec("send", s, c)]
        /\ replies' = [replies EXCEPT ![s] = @ \ {c}] /\ UNCHANGED delivered
    BY <1>5 DEF Takes
  <2>2. ASSUME NEW x \in Script, NEW d \in Call, ~(x = s /\ d = c)
        PROVE  Sending(x, d)' = Sending(x, d) /\ (d \in replies'[x] <=> d \in replies[x])
    <3>1. reply'[r] # ReplyRec("send", x, d) /\ reply[r] # ReplyRec("send", x, d)
      BY <1>0, <1>3, <2>1, <2>2
    <3>2. \A y \in Replier : y # r => reply'[y] = reply[y]
      BY <1>0, <2>1
    <3>3. d \in replies'[x] <=> d \in replies[x]
      BY <1>0, <2>1, <2>2
    <3> QED
      BY <3>1, <3>2, <3>3 DEF Sending, ReplyRec
  <2>3. Sending(s, c)' = Sending(s, c) \cup {r} /\ r \notin Sending(s, c) /\ c \notin replies'[s]
    <3>1. reply'[r] = ReplyRec("send", s, c) /\ reply[r] # ReplyRec("send", s, c)
      BY <1>0, <1>3, <2>1
    <3>2. \A y \in Replier : y # r => reply'[y] = reply[y]
      BY <1>0, <2>1
    <3>3. c \notin replies'[s]
      BY <1>0, <2>1
    <3> QED
      BY <3>1, <3>2, <3>3 DEF Sending, ReplyRec
  <2>4. Cardinality(Sending(s, c)') = Cardinality(Sending(s, c)) + 1
    BY <2>3, SendingFinite, FS_AddElement
  <2>5. FreshIds'
    <3>1. SUFFICES ASSUME NEW x \in Script, NEW d \in Call,
                          d >= nextId[x] \/ (script[x] = "insert" /\ d = ThisCall(x))
                   PROVE  d \notin replies'[x] /\ delivered[x][d] = 0 /\ Sending(x, d)' = {}
      BY <1>2, <2>1 DEF FreshIds, ThisCall
    <3>2. d \notin replies[x] /\ delivered[x][d] = 0 /\ Sending(x, d) = {}
      BY <3>1 DEF AnswerInv, FreshIds
    <3> QED
      BY <2>1, <2>2, <3>2
  <2>6. ASSUME NEW x \in Script, NEW d \in Call PROVE Rights(x, d)' <= 1
    <3>1. CASE x = s /\ d = c
      <4>1. Rights(s, c) = delivered[s][c] + Cardinality(Sending(s, c)) + 1
        BY <2>1 DEF Rights
      <4>2. Rights(s, c)' = delivered[s][c] + Cardinality(Sending(s, c)') + 0
        BY <2>1, <2>3 DEF Rights
      <4>3. Rights(s, c)' = Rights(s, c)
        BY <1>1, <2>4, <4>1, <4>2
      <4> QED
        BY <1>1, <3>1, <4>3
    <3>2. CASE ~(x = s /\ d = c)
      <4>1. Rights(x, d)' = Rights(x, d)
        BY <2>1, <2>2, <3>2, Zenon DEF Rights
      <4> QED
        BY <1>1, <4>1
    <3> QED
      BY <3>1, <3>2
  <2> QED
    BY <2>5, <2>6 DEF OneAnswer, Rights, Sending
<1>6. CASE Sends(r, s, c)
  <2>1. /\ reply[r] = ReplyRec("send", s, c) /\ reply' = [reply EXCEPT ![r] = NoReply]
        /\ delivered' = [delivered EXCEPT ![s][c] = @ + 1] /\ UNCHANGED replies
    BY <1>6 DEF Sends
  <2>2. ASSUME NEW x \in Script, NEW d \in Call, ~(x = s /\ d = c)
        PROVE  Sending(x, d)' = Sending(x, d) /\ delivered'[x][d] = delivered[x][d]
    <3>1. reply'[r] # ReplyRec("send", x, d) /\ reply[r] # ReplyRec("send", x, d)
      BY <1>0, <1>3, <2>1, <2>2
    <3>2. \A y \in Replier : y # r => reply'[y] = reply[y]
      BY <1>0, <2>1
    <3>3. delivered'[x][d] = delivered[x][d]
      BY <1>0, <2>1, <2>2
    <3> QED
      BY <3>1, <3>2, <3>3 DEF Sending, ReplyRec
  <2>3. /\ Sending(s, c)' = Sending(s, c) \ {r} /\ r \in Sending(s, c)
        /\ delivered'[s][c] = delivered[s][c] + 1
    <3>1. reply'[r] # ReplyRec("send", s, c) /\ reply[r] = ReplyRec("send", s, c)
      BY <1>0, <1>3, <2>1
    <3>2. \A y \in Replier : y # r => reply'[y] = reply[y]
      BY <1>0, <2>1
    <3>3. delivered'[s][c] = delivered[s][c] + 1
      BY <1>0, <2>1
    <3> QED
      BY <3>1, <3>2, <3>3 DEF Sending, ReplyRec
  <2>4. Cardinality(Sending(s, c)') = Cardinality(Sending(s, c)) - 1
    BY <2>3, SendingFinite, FS_RemoveElement
  <2>5. FreshIds'
    <3>1. SUFFICES ASSUME NEW x \in Script, NEW d \in Call,
                          d >= nextId[x] \/ (script[x] = "insert" /\ d = ThisCall(x))
                   PROVE  d \notin replies[x] /\ delivered'[x][d] = 0 /\ Sending(x, d)' = {}
      BY <1>2, <2>1 DEF FreshIds, ThisCall
    <3>2. d \notin replies[x] /\ delivered[x][d] = 0 /\ Sending(x, d) = {}
      BY <3>1 DEF AnswerInv, FreshIds
    <3> QED
      BY <2>2, <2>3, <3>2
  <2>6. ASSUME NEW x \in Script, NEW d \in Call PROVE Rights(x, d)' <= 1
    <3>1. CASE x = s /\ d = c
      <4> DEFINE held == IF c \in replies[s] THEN 1 ELSE 0
      <4>1. Rights(s, c) = delivered[s][c] + Cardinality(Sending(s, c)) + held
        BY DEF Rights
      <4>2. Rights(s, c)' = delivered'[s][c] + Cardinality(Sending(s, c)') + held
        BY <2>1 DEF Rights
      <4>3. held \in Nat
        OBVIOUS
      <4> HIDE DEF held
      <4>4. Rights(s, c)' = Rights(s, c)
        BY <1>1, <2>3, <2>4, <4>1, <4>2, <4>3
      <4> QED
        BY <1>1, <3>1, <4>4
    <3>2. CASE ~(x = s /\ d = c)
      <4>1. Rights(x, d)' = Rights(x, d)
        BY <2>1, <2>2, <3>2, Zenon DEF Rights
      <4> QED
        BY <1>1, <4>1
    <3> QED
      BY <3>1, <3>2
  <2> QED
    BY <2>5, <2>6 DEF OneAnswer, Rights, Sending
<1> QED
  BY <1>4, <1>5, <1>6 DEF ReplyMove

\* The invariant is inductive.
LEMMA AnswerInvInductive == AnswerInv /\ [AgentNext]_agentVars => AnswerInv'
<1> SUFFICES ASSUME AnswerInv, [AgentNext]_agentVars PROVE AnswerInv'
  OBVIOUS
<1>1. ASSUME NEW s \in Script, ScriptStepOf(s) PROVE AnswerInv'
  BY <1>1, ScriptTyped, ScriptKeepsAnswers DEF AnswerInv
<1>2. ASSUME NEW p \in Poller, PollNext(p) \/ PollStepOf(p) \/ PollAgesOut(p) PROVE AnswerInv'
  <2>1. PICK q \in PollRecord : PollMove(p, q)
    BY <1>2, PollMoves DEF AnswerInv
  <2>2. UNCHANGED <<script, nextId, replies, reply, delivered>>
    BY <2>1 DEF PollMove
  <2>3. (FreshIds /\ OneAnswer)'
    BY <2>2 DEF AnswerInv, FreshIds, OneAnswer, Sending, ThisCall
  <2> QED
    BY <2>1, <2>3, PollTyped DEF AnswerInv
<1>3. ASSUME NEW r \in Replier, PostReply(r) \/ TakeSender(r) \/ SendAnswer(r) PROVE AnswerInv'
  <2>1. PICK s \in Script, c \in Call : ReplyMove(r, s, c)
    BY <1>3, ReplyMoves DEF AnswerInv
  <2> QED
    BY <2>1, ReplyTyped, ReplyKeepsAnswers DEF AnswerInv
<1>4. CASE UNCHANGED agentVars
  BY <1>4 DEF agentVars, AnswerInv, ScriptInv, AgentTypeOK, Holding, FreshIds, OneAnswer,
              Sending, ThisCall
<1> QED
  BY <1>1, <1>2, <1>3, <1>4 DEF AgentNext

-----------------------------------------------------------------------------
(* A script leaves no sender behind.                                       *)

\* An answer in the channel was told "delivered".
Told == \A s \in Script : \A c \in channel[s] : delivered[s][c] # 0

LiveInv == AnswerInv /\ Told /\ SendersLive

\* A script leaves a call when its answer, for which the sender was taken, is
\* there, or when it has removed the sender.
LEMMA ScriptKeepsLive ==
  ASSUME LiveInv, NEW s \in Script, ScriptStepOf(s)
  PROVE  (Told /\ SendersLive)'
<1>0. /\ script \in [Script -> ScriptStep] /\ nextId \in [Script -> 0..MaxCalls]
      /\ replies \in [Script -> SUBSET Call] /\ channel \in [Script -> SUBSET Call]
      /\ delivered \in [Script -> [Call -> Nat]]
  BY DEF LiveInv, AnswerInv, ScriptInv, AgentTypeOK
<1>1. UNCHANGED delivered /\ \A x \in Script : channel'[x] \subseteq channel[x]
  BY <1>0 DEF ScriptStepOf, Register, CallHost, InsertSender, Enqueue, NotifyCall,
     ReceiveAnswer, CallTimesOut, ForgetSender, ScriptReturns, StoreDone, WakePollers, Deregister
<1>2. Told'
  BY <1>1 DEF LiveInv, Told
<1>3. ASSUME NEW x \in Script, x # s
      PROVE  script'[x] = script[x] /\ nextId'[x] = nextId[x] /\ replies'[x] = replies[x]
  BY <1>0, <1>3 DEF ScriptStepOf, Register, CallHost, InsertSender, Enqueue, NotifyCall,
     ReceiveAnswer, CallTimesOut, ForgetSender, ScriptReturns, StoreDone, WakePollers, Deregister,
     ScriptAt
<1>4. /\ replies[s] # {} => replies[s] = {nextId[s] - 1}
      /\ replies[s] # {} => script[s] \in {"enqueue", "notify", "wait", "forget"}
  BY DEF LiveInv, SendersLive, ThisCall
<1>5. /\ replies'[s] # {} => replies'[s] = {nextId'[s] - 1}
      /\ replies'[s] # {} => script'[s] \in {"enqueue", "notify", "wait", "forget"}
  <2>1. CASE InsertSender(s)
    <3>1. /\ script[s] = "insert" /\ script'[s] = "enqueue" /\ nextId' = nextId
          /\ replies'[s] = replies[s] \cup {nextId[s] - 1}
      BY <1>0, <2>1 DEF InsertSender, ScriptAt, ThisCall
    <3> QED
      BY <1>4, <3>1
  <2>2. CASE ForgetSender(s)
    <3>1. replies'[s] = replies[s] \ {nextId[s] - 1}
      BY <1>0, <2>2 DEF ForgetSender, ThisCall
    <3> QED
      BY <1>4, <3>1
  <2>3. CASE ReceiveAnswer(s)
    <3>1. script[s] = "wait" /\ ThisCall(s) \in channel[s] /\ UNCHANGED <<replies, nextId>>
      BY <2>3 DEF ReceiveAnswer, ScriptAt
    <3>2. ThisCall(s) \in Call
      BY <3>1, CallInRange DEF LiveInv, AnswerInv
    <3>3. Rights(s, ThisCall(s)) <= 1
      BY <3>2 DEF LiveInv, AnswerInv, OneAnswer, Rights, Sending
    <3>4. delivered[s][ThisCall(s)] \in Nat /\ delivered[s][ThisCall(s)] # 0
          /\ Cardinality(Sending(s, ThisCall(s))) \in Nat
      BY <1>0, <3>1, <3>2, SendingFinite DEF LiveInv, Told
    <3>5. ThisCall(s) \notin replies[s]
      BY <3>3, <3>4 DEF Rights
    <3> QED
      BY <1>4, <3>1, <3>5 DEF ThisCall
  <2>4. CASE CallHost(s) \/ Register(s) \/ ScriptReturns(s) \/ StoreDone(s) \/ WakePollers(s)
             \/ Deregister(s)
    <3>1. script[s] \notin {"enqueue", "notify", "wait", "forget"} /\ UNCHANGED replies
      BY <2>4 DEF CallHost, Register, ScriptReturns, StoreDone, WakePollers, Deregister, ScriptAt
    <3> QED
      BY <1>4, <3>1
  <2>5. CASE Enqueue(s) \/ NotifyCall(s) \/ CallTimesOut(s)
    <3>1. script'[s] \in {"enqueue", "notify", "wait", "forget"} /\ UNCHANGED <<replies, nextId>>
      BY <1>0, <2>5 DEF Enqueue, NotifyCall, CallTimesOut, ScriptAt
    <3> QED
      BY <1>4, <3>1
  <2> QED
    BY <2>1, <2>2, <2>3, <2>4, <2>5 DEF ScriptStepOf
<1>6. ASSUME NEW x \in Script, replies'[x] # {}
      PROVE  /\ replies'[x] = {nextId'[x] - 1}
             /\ script'[x] \in {"enqueue", "notify", "wait", "forget"}
  <2>1. CASE x = s
    BY <1>5, <1>6, <2>1
  <2>2. CASE x # s
    BY <1>3, <1>6, <2>2 DEF LiveInv, SendersLive, ThisCall
  <2> QED
    BY <2>1, <2>2
<1>7. SendersLive'
  BY <1>6 DEF SendersLive, ThisCall
<1> QED
  BY <1>2, <1>7

\* A reply takes senders out, and tells "delivered" when it sends.
LEMMA ReplyKeepsLive ==
  ASSUME LiveInv, NEW r \in Replier, NEW s \in Script, NEW c \in Call, ReplyMove(r, s, c)
  PROVE  (Told /\ SendersLive)'
<1>0. /\ replies \in [Script -> SUBSET Call] /\ channel \in [Script -> SUBSET Call]
      /\ delivered \in [Script -> [Call -> Nat]]
  BY DEF LiveInv, AnswerInv, ScriptInv, AgentTypeOK
<1>1. UNCHANGED <<script, nextId>> /\ \A x \in Script : replies'[x] \subseteq replies[x]
  BY <1>0 DEF ReplyMove, Names, Takes, Misses, Sends
<1>2. SendersLive'
  BY <1>1 DEF LiveInv, SendersLive, ThisCall
<1>3. Told'
  <2>1. CASE Sends(r, s, c)
    <3>1. SUFFICES ASSUME NEW x \in Script, NEW d \in channel'[x] PROVE delivered'[x][d] # 0
      BY DEF Told
    <3>2. d \in Call /\ (d \in channel[x] \/ (x = s /\ d = c))
      BY <2>1, <3>1 DEF Sends
    <3>3. delivered' = [delivered EXCEPT ![s][c] = @ + 1]
      BY <2>1 DEF Sends
    <3>4. CASE x = s /\ d = c
      <4>1. delivered'[x][d] = delivered[x][d] + 1 /\ delivered[x][d] \in Nat
        BY <1>0, <3>3, <3>4
      <4> QED
        BY <4>1
    <3>5. CASE ~(x = s /\ d = c)
      <4>1. delivered'[x][d] = delivered[x][d]
        BY <1>0, <3>2, <3>3, <3>5
      <4> QED
        BY <3>2, <3>5, <4>1 DEF LiveInv, Told
    <3> QED
      BY <3>4, <3>5
  <2>2. CASE ~Sends(r, s, c)
    <3>1. UNCHANGED <<delivered, channel>>
      BY <2>2 DEF ReplyMove, Names, Takes, Misses
    <3> QED
      BY <3>1 DEF LiveInv, Told
  <2> QED
    BY <2>1, <2>2
<1> QED
  BY <1>2, <1>3

\* The invariant is inductive.
LEMMA LiveInvInductive == LiveInv /\ [AgentNext]_agentVars => LiveInv'
<1> SUFFICES ASSUME LiveInv, [AgentNext]_agentVars PROVE (Told /\ SendersLive)'
  BY AnswerInvInductive DEF LiveInv
<1>1. ASSUME NEW s \in Script, ScriptStepOf(s) PROVE (Told /\ SendersLive)'
  BY <1>1, ScriptKeepsLive
<1>2. ASSUME NEW p \in Poller, PollNext(p) \/ PollStepOf(p) \/ PollAgesOut(p)
      PROVE  (Told /\ SendersLive)'
  <2>1. PICK q \in PollRecord : PollMove(p, q)
    BY <1>2, PollMoves DEF LiveInv, AnswerInv
  <2>2. UNCHANGED <<script, nextId, replies, channel, delivered>>
    BY <2>1 DEF PollMove
  <2> QED
    BY <2>2 DEF LiveInv, Told, SendersLive, ThisCall
<1>3. ASSUME NEW r \in Replier, PostReply(r) \/ TakeSender(r) \/ SendAnswer(r)
      PROVE  (Told /\ SendersLive)'
  <2>1. PICK s \in Script, c \in Call : ReplyMove(r, s, c)
    BY <1>3, ReplyMoves DEF LiveInv, AnswerInv
  <2> QED
    BY <2>1, ReplyKeepsLive
<1>4. CASE UNCHANGED agentVars
  BY <1>4 DEF agentVars, LiveInv, Told, SendersLive, ThisCall
<1> QED
  BY <1>1, <1>2, <1>3, <1>4 DEF AgentNext

(***************************************************************************)
(* A host call is told "delivered" at most once, for any number of replies *)
(* that race for it: its sender is inserted once, under an id nobody has   *)
(* answered, and whoever answers has taken it out of the map.  A script    *)
(* that goes on after its call leaves no sender a later reply could take.  *)
(***************************************************************************)
THEOREM AnsweredOnce == AgentSpec => []DeliveredOnce
<1>1. AgentInit => LiveInv
  <2>1. SUFFICES ASSUME AgentInit PROVE FreshIds /\ OneAnswer /\ Told /\ SendersLive
    BY ScriptInvInitially DEF LiveInv, AnswerInv
  <2>2. \A s \in Script, c \in Call : Sending(s, c) = {}
    BY <2>1 DEF AgentInit, Sending, NoReply
  <2>3. FreshIds
    BY <2>1, <2>2 DEF AgentInit, FreshIds
  <2>4. \A s \in Script, c \in Call : Rights(s, c) <= 1
    <3>1. \A s \in Script, c \in Call : delivered[s][c] = 0 /\ c \notin replies[s]
      BY <2>1 DEF AgentInit
    <3>2. \A s \in Script, c \in Call : Cardinality(Sending(s, c)) = 0
      BY <2>2, FS_EmptySet
    <3> QED
      BY <3>1, <3>2 DEF Rights
  <2>5. OneAnswer
    BY <2>4 DEF OneAnswer, Rights, Sending
  <2>6. Told /\ SendersLive
    BY <2>1 DEF AgentInit, Told, SendersLive
  <2> QED
    BY <2>3, <2>5, <2>6
<1>2. LiveInv => DeliveredOnce
  BY DEF LiveInv, AnswerInv, DeliveredOnce
<1> QED
  BY <1>1, <1>2, LiveInvInductive, PTL DEF AgentSpec

-----------------------------------------------------------------------------
(***************************************************************************)
(* The three side by side.                                                 *)
(***************************************************************************)

\* What runs a VU stays well typed, whichever part of it runs: each part keeps
\* its own invariant, and a part that does not run keeps its state.
THEOREM ServicesTyped == Spec => []ServicesTypeOK
<1> DEFINE I == WorkerInv /\ WalkInv /\ WakeInv
<1>1. Init => I
  BY WorkerInitially, WalkInitially, WakeInitially DEF Init
<1>2. I /\ [Next]_vars => I'
  <2> SUFFICES ASSUME I, [Next]_vars
               PROVE  /\ [WorkerNext]_workerVars /\ [RunnerNext]_runnerVars /\ [AgentNext]_agentVars
    BY WorkerInductive, WalkInvInductive, WakeInvInductive
  <2> QED
    BY DEF Next, Pool, Runner, Agent, vars
<1>3. I => ServicesTypeOK
  BY DEF WorkerInv, WalkInv, WakeInv, ScriptInv, ServicesTypeOK
<1> QED
  BY <1>1, <1>2, <1>3, PTL DEF Spec
=============================================================================
