------------------------------ MODULE Segments ------------------------------
(***************************************************************************)
(* Execution segments (crates/tropel-core/src/segment.rs): how N nodes     *)
(* that never talk to each other split one workload.  A sequence is the    *)
(* list of its boundaries, each a rational <<num, den>>; segment i of it   *)
(* is [ seq[i], seq[i+1] ).                                                *)
(***************************************************************************)
EXTENDS Integers, Sequences, FiniteSets, FiniteSetsExt

\* Rational order, by cross-multiplication.
Below(a, b) == a[1] * b[2] < b[1] * a[2]

\* parse_sequence: starts at 0, ends at 1, strictly ascending.
IsSequence(seq) ==
  /\ Len(seq) >= 2
  /\ seq[1][1] = 0 /\ seq[Len(seq)][1] = seq[Len(seq)][2]
  /\ \A i \in 1..(Len(seq) - 1) : Below(seq[i], seq[i + 1])

Segs(seq) == 1..(Len(seq) - 1)

\* The equal split "0/N, 1/N, ..., N/N".
EqualSplit(n) == [i \in 1..(n + 1) |-> <<i - 1, n>>]

\* A boundary of a given sequence, printed as an f64 and read back digit by
\* digit: a nearby multiple of a power of ten.  The nearest one at a small scale
\* stands for the f64's shortest round trip of about 16 digits (19 overflow the
\* denominator in the code); no property depends on which multiple it is.
Decimal(b, scale) == <<(2 * b[1] * scale + b[2]) \div (2 * b[2]), scale>>

\* Mutant: each share rounds its own length up.
CeilScale(n, from, to) ==
  (n * (to[1] * from[2] - from[1] * to[2]) + to[2] * from[2] - 1) \div (to[2] * from[2])

\* scale_vus and scale_iterations: floor(n*to) - floor(n*from).
Scale(n, from, to) == ((n * to[1]) \div to[2]) - ((n * from[1]) \div from[2])

\* The share of segment i in a workload of n.
Share(n, seq, i) == Scale(n, seq[i], seq[i + 1])

-----------------------------------------------------------------------------
(* Striping: which ticks of the global arrival sequence a segment owns.    *)

\* length_rat, as a number of ticks out of a cycle of `lcd` of them.
Ticks(seq, i, lcd) ==
  ((seq[i + 1][1] * seq[i][2] - seq[i][1] * seq[i + 1][2]) * lcd)
    \div (seq[i + 1][2] * seq[i][2])

\* The smallest cycle in which every segment has a whole number of ticks.
Lcd(seq) ==
  LET bound == SumFunction([i \in Segs(seq) |-> seq[i][2] * seq[i + 1][2]])
      whole(l) == \A i \in Segs(seq) :
        ((seq[i + 1][1] * seq[i][2] - seq[i][1] * seq[i + 1][2]) * l)
           % (seq[i + 1][2] * seq[i][2]) = 0
  IN CHOOSE l \in 1..bound : whole(l) /\ \A m \in 1..(l - 1) : ~whole(m)

\* ExecutionSegmentSequenceWrapper::new: tick by tick, the first segment that
\* is behind its share claims the tick, the longest first.  The value is the
\* owner of each tick of a cycle.
Stripes(seq, lcd) ==
  LET len(i) == Ticks(seq, i, lcd)
      \* the ticks 0..gi-1, as a sequence of owners
      owners[gi \in 0..lcd] ==
        IF gi = 0 THEN <<>>
        ELSE LET before == owners[gi - 1]
                 chosen(i) == Cardinality({k \in 1..(gi - 1) : before[k] = i})
                 behind == {i \in Segs(seq) : (gi - 1) * len(i) >= chosen(i) * lcd}
                 ahead(i, j) == len(i) > len(j) \/ (len(i) = len(j) /\ i <= j)
             IN IF behind = {} THEN Append(before, 0)
                ELSE Append(before, CHOOSE i \in behind : \A j \in behind : ahead(i, j))
  IN owners[lcd]

\* The first tick segment i owns, then the gaps to each next one, the last of
\* which wraps around to the first tick of the next cycle.
Offsets(owners, i) ==
  LET lcd == Len(owners)
      mine == {k \in 1..lcd : owners[k] = i}
      after(k) == IF \E m \in mine : m > k THEN Min({m \in mine : m > k})
                                           ELSE Min(mine) + lcd
      nth[n \in 1..Cardinality(mine)] == IF n = 1 THEN Min(mine) ELSE after(nth[n - 1])
  IN [start |-> Min(mine) - 1,
      gaps |-> [n \in 1..Cardinality(mine) |-> after(nth[n]) - nth[n]]]
=============================================================================
