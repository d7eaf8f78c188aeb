--------------------------- MODULE ArrivalStripes ---------------------------
(***************************************************************************)
(* The ArrivalStripe cursors of N nodes that run one arrival-rate job      *)
(* (crates/tropel-core/src/segment.rs): each node counts the arrivals of   *)
(* the global schedule on its own clock, and releases the ones it owns.    *)
(***************************************************************************)
EXTENDS Segments

CONSTANTS
  MaxDen,        \* bound: denominators of the boundaries
  MaxSegments,   \* bound: nodes
  MaxArrivals,   \* bound: length of the global schedule
  MaxWork        \* bound: VUs or iterations to share

ASSUME StripeAssumption ==
  {MaxDen, MaxSegments, MaxArrivals, MaxWork} \subseteq Nat \ {0}

VARIABLES
  boundaries,    \* executionSegmentSequence
  stripe,        \* offsets of each segment
  cursor,        \* SegmentedIndex: scaled and unscaled, of each segment
  seen,          \* the global arrivals each node's clock has reached
  fired          \* history: the global arrivals each node has released

stripeVars == <<boundaries, stripe, cursor, seen, fired>>

\* Every sequence of at most MaxSegments segments over a denominator up to
\* MaxDen.
AllSequences ==
  UNION {{[i \in 1..(Cardinality(cut) + 2) |->
             <<IF i = 1 THEN 0 ELSE IF i = Cardinality(cut) + 2 THEN d
               ELSE CHOOSE c \in cut : Cardinality({x \in cut : x < c}) = i - 2, d>>] :
            cut \in {c \in SUBSET (1..(d - 1)) : Cardinality(c) < MaxSegments}} : d \in 1..MaxDen}

StripeTypeOK ==
  /\ IsSequence(boundaries)
  /\ stripe \in [Segs(boundaries) -> [start : Nat, gaps : Seq(Nat \ {0})]]
  /\ cursor \in [Segs(boundaries) -> [scaled : Nat \ {0}, unscaled : Nat \ {0}]]
  /\ seen \in [Segs(boundaries) -> 0..MaxArrivals]
  /\ fired \in [Segs(boundaries) -> SUBSET (1..MaxArrivals)]

\* ArrivalStripe::from_index has already advanced to the first owned tick.
StripeInit ==
  /\ boundaries \in AllSequences
  /\ LET owners == Stripes(boundaries, Lcd(boundaries))
     IN stripe = [i \in Segs(boundaries) |-> Offsets(owners, i)]
  /\ cursor = [i \in Segs(boundaries) |-> [scaled |-> 1, unscaled |-> stripe[i].start + 1]]
  /\ seen = [i \in Segs(boundaries) |-> 0]
  /\ fired = [i \in Segs(boundaries) |-> {}]

\* Mutant: a cursor that counts from the second gap.
AdvanceSkipped(i, c) ==
  [scaled |-> c.scaled + 1,
   unscaled |-> c.unscaled + stripe[i].gaps[(c.scaled % Len(stripe[i].gaps)) + 1]]

\* SegmentedIndex::advance
Advance(i, c) ==
  [scaled |-> c.scaled + 1,
   unscaled |-> c.unscaled + stripe[i].gaps[((c.scaled - 1) % Len(stripe[i].gaps)) + 1]]

\* due_by: release every owned arrival up to the count.
DueBy(i, arrivals) ==
  LET walk[n \in 0..MaxArrivals] ==
        IF n = 0 THEN [c |-> cursor[i], out |-> {}]
        ELSE LET w == walk[n - 1] IN
               IF w.c.unscaled > arrivals THEN w
               ELSE [c |-> Advance(i, w.c), out |-> w.out \cup {w.c.unscaled}]
  IN walk[MaxArrivals]

\* One tick of node i's executor: its clock has moved on by any amount.
StripeTick(i) ==
  \E g \in (seen[i] + 1)..MaxArrivals :
    LET due == DueBy(i, g) IN
      /\ seen' = [seen EXCEPT ![i] = g]
      /\ cursor' = [cursor EXCEPT ![i] = due.c]
      /\ fired' = [fired EXCEPT ![i] = @ \cup due.out]
      /\ UNCHANGED <<boundaries, stripe>>

StripeNext == \E i \in Segs(boundaries) : StripeTick(i)

StripeSpec == StripeInit /\ [][StripeNext]_stripeVars

-----------------------------------------------------------------------------
(* Properties.                                                             *)

\* However far apart the nodes' clocks are, no arrival is released by two of
\* them, and every arrival all the clocks have passed is released by one: the
\* nodes interleave into the schedule of one node at the full rate.
StripesPartition ==
  /\ \A i, j \in Segs(boundaries) : i # j => fired[i] \cap fired[j] = {}
  /\ \A g \in 1..MaxArrivals :
       (\A i \in Segs(boundaries) : seen[i] >= g) =>
         \E i \in Segs(boundaries) : g \in fired[i]

\* The shares of VUs and iterations add up to the whole, and no share is off
\* by more than one from its node's part of it, whether the boundaries are
\* spelled as fractions or as the decimals the controller prints.
SharesSum ==
  \A n \in 0..MaxWork :
    \A seq \in {boundaries,
                [i \in DOMAIN boundaries |-> Decimal(boundaries[i], 100)]} :
      /\ MapThenSumSet(LAMBDA i : Share(n, seq, i), Segs(seq)) = n
      /\ \A i \in Segs(seq) : LET exact == n * (seq[i + 1][1] * seq[i][2] - seq[i][1] * seq[i + 1][2])
                                  den == seq[i + 1][2] * seq[i][2]
                              IN /\ Share(n, seq, i) * den < exact + den
                                 /\ exact < (Share(n, seq, i) + 1) * den
=============================================================================
