--------------------------- MODULE TrafficProofs ----------------------------
(***************************************************************************)
(* Proofs about what a run sends and measures: the rps limiter, for every  *)
(* number of callers, every interval and every width of the timestamp; the *)
(* HTTP client, for every number of VUs and hosts, every max_redirects and *)
(* every setting of the DNS cache; the metrics pipeline, for every number  *)
(* of recorders, shards and metrics and every bound of its queues; and the *)
(* types of these and of the distributed part, side by side.               *)
(***************************************************************************)
EXTENDS MCTraffic, DistributedProofs

-----------------------------------------------------------------------------
(***************************************************************************)
(* The rps limiter.                                                        *)
(***************************************************************************)

(***************************************************************************)
(* SlotsSpaced relates two reservations; what makes it inductive is that   *)
(* the timestamp has passed the end of every reservation there is, so that *)
(* the next exchange, which starts at the timestamp or later, cannot fall  *)
(* into one.                                                               *)
(***************************************************************************)
SlotAhead == \A c \in Caller : claim[c] >= 0 => SatAdd(claim[c], Interval) <= nextSlot

RpsInv == RpsTypeOK /\ SlotAhead /\ SlotsSpaced

-----------------------------------------------------------------------------

\* saturating_add stays within the width, and never falls below its first
\* argument.
LEMMA SatAddRange ==
  ASSUME NEW m \in 0..MaxU64, NEW n \in Nat
  PROVE  SatAdd(m, n) \in 0..MaxU64 /\ m <= SatAdd(m, n)
BY RpsAssumption DEF SatAdd

\* The start a caller computes is no earlier than the slot it read.
LEMMA ClaimRange ==
  ASSUME RpsTypeOK, NEW c \in Caller
  PROVE  Claim(c) \in 0..MaxU64 /\ slotRead[c] <= Claim(c)
BY RpsAssumption DEF RpsTypeOK, Claim

\* A successful exchange moves the timestamp past the new reservation, and the
\* new reservation starts after all the others.
LEMMA ReservePreserves ==
  ASSUME RpsInv, NEW c \in Caller, Reserve(c)
  PROVE  RpsInv'
<1> DEFINE k == Claim(c)
<1>1. k \in 0..MaxU64 /\ nextSlot <= k
  BY ClaimRange DEF RpsInv, Reserve
<1>2. SatAdd(k, Interval) \in 0..MaxU64 /\ k <= SatAdd(k, Interval)
  BY <1>1, SatAddRange, RpsAssumption
<1>3. nextSlot' = SatAdd(k, Interval) /\ claim' = [claim EXCEPT ![c] = k]
  BY DEF Reserve
<1>4. RpsTypeOK'
  BY <1>1, <1>2, <1>3 DEF RpsInv, RpsTypeOK, Reserve, To, Stage
<1>5. SlotAhead'
  <2> SUFFICES ASSUME NEW d \in Caller, claim'[d] >= 0
               PROVE  SatAdd(claim'[d], Interval) <= nextSlot'
    BY DEF SlotAhead, SatAdd
  <2>1. CASE d = c
    BY <2>1, <1>2, <1>3 DEF RpsInv, RpsTypeOK
  <2>2. CASE d # c
    <3>1. claim'[d] = claim[d] /\ claim[d] \in 0..MaxU64
      BY <2>2, <1>3, RpsAssumption DEF RpsInv, RpsTypeOK
    <3>2. SatAdd(claim[d], Interval) <= nextSlot
      BY <3>1, RpsAssumption DEF RpsInv, SlotAhead
    <3>3. SatAdd(claim[d], Interval) \in 0..MaxU64
      BY <3>1, SatAddRange, RpsAssumption
    <3> QED
      BY <3>1, <3>2, <3>3, <1>1, <1>2, <1>3 DEF RpsInv, RpsTypeOK
  <2> QED
    BY <2>1, <2>2
<1>6. SlotsSpaced'
  <2>1. \A d \in Caller : d # c /\ claim[d] \in 0..(MaxU64 - 1) /\ k < MaxU64 =>
          k >= claim[d] + Interval
    <3> SUFFICES ASSUME NEW d \in Caller, d # c, claim[d] \in 0..(MaxU64 - 1), k < MaxU64
                 PROVE  k >= claim[d] + Interval
      OBVIOUS
    <3>1. SatAdd(claim[d], Interval) <= nextSlot
      BY DEF RpsInv, SlotAhead
    <3> QED
      BY <3>1, <1>1, RpsAssumption DEF SatAdd, RpsInv, RpsTypeOK
  <2>2. claim'[c] = k /\ \A d \in Caller : d # c => claim'[d] = claim[d]
    BY <1>3 DEF RpsInv, RpsTypeOK
  <2> HIDE DEF k
  <2> SUFFICES ASSUME NEW d \in Caller, NEW e \in Caller, d # e,
                      claim'[d] \in 0..(MaxU64 - 1), claim'[e] \in 0..(MaxU64 - 1)
               PROVE  claim'[d] >= claim'[e] + Interval \/ claim'[e] >= claim'[d] + Interval
    BY DEF SlotsSpaced
  <2>3. CASE d = c
    BY <2>1, <2>2, <2>3, <1>1, RpsAssumption
  <2>4. CASE e = c
    BY <2>1, <2>2, <2>4, <1>1, RpsAssumption
  <2>5. CASE d # c /\ e # c
    BY <2>2, <2>5 DEF RpsInv, SlotsSpaced
  <2> QED
    BY <2>3, <2>4, <2>5
<1> QED
  BY <1>4, <1>5, <1>6 DEF RpsInv

\* Every step preserves the invariant: only the exchange writes what it is about.
LEMMA RpsInductive ==
  ASSUME RpsInv, [RpsNext]_rpsVars
  PROVE  RpsInv'
<1>1. ASSUME RpsTypeOK', UNCHANGED <<nextSlot, claim>>
      PROVE  RpsInv'
  BY <1>1 DEF RpsInv, SlotAhead, SlotsSpaced, SatAdd
<1>2. CASE Tick
  BY <1>1, <1>2, RpsAssumption DEF Tick, RpsInv, RpsTypeOK
<1>3. ASSUME NEW c \in Caller, Enter(c) PROVE RpsInv'
  BY <1>1, <1>3 DEF Enter, To, Stage, RpsInv, RpsTypeOK
<1>4. ASSUME NEW c \in Caller, LoadSlot(c) PROVE RpsInv'
  BY <1>1, <1>4 DEF LoadSlot, To, Stage, RpsInv, RpsTypeOK
<1>5. ASSUME NEW c \in Caller, Reserve(c) PROVE RpsInv'
  BY <1>5, ReservePreserves
<1>6. ASSUME NEW c \in Caller, Retry(c) PROVE RpsInv'
  BY <1>1, <1>6 DEF Retry, To, Stage, RpsInv, RpsTypeOK
<1>7. ASSUME NEW c \in Caller, Start(c) PROVE RpsInv'
  BY <1>1, <1>7 DEF Start, To, Stage, RpsInv, RpsTypeOK
<1>8. CASE UNCHANGED rpsVars
  BY <1>1, <1>8 DEF rpsVars, RpsInv, RpsTypeOK
<1> QED
  BY <1>2, <1>3, <1>4, <1>5, <1>6, <1>7, <1>8 DEF RpsNext

\* The initial state satisfies the invariant.
LEMMA RpsInitially == RpsInit => RpsInv
BY RpsAssumption DEF RpsInit, RpsInv, RpsTypeOK, SlotAhead, SlotsSpaced, Stage

-----------------------------------------------------------------------------

\* RpsLimiter::acquire hands out starts at least an interval apart, however many
\* requests race for them and however stale the clock and the slot they read,
\* until the 64-bit timestamp saturates.
THEOREM StartsSpaced == RpsSpec => []SlotsSpaced
<1>1. RpsInv => SlotsSpaced
  BY DEF RpsInv
<1> QED
  BY RpsInitially, RpsInductive, <1>1, PTL DEF RpsSpec

-----------------------------------------------------------------------------
(***************************************************************************)
(* The HTTP client.                                                        *)
(***************************************************************************)

(***************************************************************************)
(* What one request has spent: the hop it is in has gone out, twice at the *)
(* most, only once it is answered, and a redirect that the client follows  *)
(* is handed back only below the budget.                                   *)
(***************************************************************************)
Answered == {"respond", "body", "bodyOfRedirect"}

HopOK(q) ==
  /\ q.hops <= MaxRedirects
  /\ q.step \notin Answered => q.sends <= 2 * q.hops
  /\ q.sends <= 2 * (q.hops + 1)
  /\ q.step = "bodyOfRedirect" /\ q.follow => q.hops < MaxRedirects

ChainInv ==
  /\ request \in [Requester -> Request]
  /\ \A v \in Requester : HopOK(request[v])

-----------------------------------------------------------------------------

\* A VU between two requests has spent nothing.
LEMMA IdleOK == Idle \in Request /\ HopOK(Idle)
BY HttpAssumption DEF Idle, Request, Step, HopOK, Answered

\* A step changes the request of one VU.
LEMMA OneRequest ==
  ASSUME ChainInv, NEW v \in Requester, NEW q \in Request, HopOK(q),
         request' = [request EXCEPT ![v] = q]
  PROVE  ChainInv'
<1>1. request' \in [Requester -> Request]
  BY DEF ChainInv
<1>2. ASSUME NEW w \in Requester PROVE HopOK(request'[w])
  <2>1. request'[w] = q \/ request'[w] = request[w]
    BY DEF ChainInv
  <2> QED
    BY <2>1, Zenon DEF ChainInv
<1> QED
  BY <1>1, <1>2 DEF ChainInv, HopOK

\* Moving to a step is safe if the step allows what was spent.
LEMMA MoveOK ==
  ASSUME ChainInv, NEW v \in Requester, NEW s \in Step, Move(v, s),
         s \in Answered \/ request[v].step \notin Answered,
         s = "bodyOfRedirect" /\ request[v].follow => request[v].hops < MaxRedirects
  PROVE  ChainInv'
<1> DEFINE q == [request[v] EXCEPT !.step = s]
<1>1. request[v] \in Request /\ HopOK(request[v])
  BY DEF ChainInv
<1>2. /\ q \in Request /\ q.step = s /\ q.hops = request[v].hops
      /\ q.sends = request[v].sends /\ q.follow = request[v].follow
  BY <1>1 DEF Request
<1>3. request' = [request EXCEPT ![v] = q]
  BY DEF Move
<1> HIDE DEF q
<1>4. HopOK(q)
  BY <1>1, <1>2 DEF HopOK
<1> QED
  BY <1>2, <1>3, <1>4, OneRequest

\* A request that returns leaves nothing.
LEMMA ReturnOK == ASSUME ChainInv, NEW v \in Requester, Return(v) PROVE ChainInv'
BY IdleOK, OneRequest DEF Return

\* A request starts with nothing spent.
LEMMA ExecuteOK == ASSUME ChainInv, NEW v \in Requester, Execute(v) PROVE ChainInv'
<1>1. PICK h \in Host, f \in BOOLEAN, s \in BOOLEAN :
        request' = [request EXCEPT ![v] =
                      [step |-> "pace", host |-> h, follow |-> f /\ MaxRedirects > 0,
                       signer |-> s, hops |-> 0, sends |-> 0]]
  BY DEF Execute
<1> DEFINE q == [step |-> "pace", host |-> h, follow |-> f /\ MaxRedirects > 0,
                 signer |-> s, hops |-> 0, sends |-> 0]
<1>2. (f /\ MaxRedirects > 0) \in BOOLEAN
  OBVIOUS
<1>3. q \in Request /\ q.step = "pace" /\ q.hops = 0 /\ q.sends = 0
  BY <1>2 DEF Request, Step
<1> HIDE DEF q
<1>4. HopOK(q)
  BY <1>3, HttpAssumption DEF HopOK, Answered
<1> QED
  BY <1>1, <1>3, <1>4, OneRequest DEF q

\* A hop goes out once, and once more if it is challenged.
LEMMA SendOK == ASSUME ChainInv, NEW v \in Requester, Send(v) PROVE ChainInv'
<1>1. CASE Return(v)
  BY <1>1, ReturnOK
<1>2. CASE \E n \in 1..2 :
             request' = [request EXCEPT ![v].step = "respond", ![v].sends = @ + n]
  <2>1. PICK n \in 1..2 :
          request' = [request EXCEPT ![v].step = "respond", ![v].sends = @ + n]
    BY <1>2
  <2> DEFINE q == [request[v] EXCEPT !.step = "respond", !.sends = request[v].sends + n]
  <2>2. request[v] \in Request /\ HopOK(request[v]) /\ request[v].step = "send"
    BY DEF ChainInv, Send, At
  <2>3. /\ q \in Request /\ q.step = "respond" /\ q.hops = request[v].hops
        /\ q.sends = request[v].sends + n
    <3>1. request[v].sends + n \in Nat
      BY <2>2 DEF Request
    <3> QED
      BY <2>2, <3>1 DEF Request, Step
  <2>4. request' = [request EXCEPT ![v] = q]
    BY <2>1
  <2> HIDE DEF q
  <2>5. HopOK(q)
    BY <2>2, <2>3 DEF HopOK, Answered, Request
  <2> QED
    BY <2>3, <2>4, <2>5, OneRequest
<1> QED
  BY <1>1, <1>2 DEF Send

\* A redirect is followed below the budget only.
LEMMA RedirectOK == ASSUME ChainInv, NEW v \in Requester, Redirect(v) PROVE ChainInv'
<1>1. CASE Return(v)
  BY <1>1, ReturnOK
<1>2. CASE \E h \in Host : request' = [request EXCEPT ![v].step = "pace", ![v].host = h,
                                                      ![v].hops = @ + 1]
  <2>1. PICK h \in Host : request' = [request EXCEPT ![v].step = "pace", ![v].host = h,
                                                     ![v].hops = @ + 1]
    BY <1>2
  <2> DEFINE q == [request[v] EXCEPT !.step = "pace", !.host = h, !.hops = request[v].hops + 1]
  <2>2. request[v] \in Request /\ HopOK(request[v]) /\ request[v].hops < MaxRedirects
    BY DEF ChainInv, Redirect
  <2>3. /\ q \in Request /\ q.step = "pace" /\ q.hops = request[v].hops + 1
        /\ q.sends = request[v].sends
    <3>1. request[v].hops + 1 \in Nat
      BY <2>2 DEF Request
    <3> QED
      BY <2>2, <3>1 DEF Request, Step
  <2>4. request' = [request EXCEPT ![v] = q]
    BY <2>1
  <2> HIDE DEF q
  <2>5. HopOK(q)
    BY <2>2, <2>3, HttpAssumption DEF HopOK, Request
  <2> QED
    BY <2>3, <2>4, <2>5, OneRequest
<1> QED
  BY <1>1, <1>2 DEF Redirect

\* The other steps of a request move it, or end it.
LEMMA WorkOK == ASSUME ChainInv, NEW v \in Requester, Work(v) PROVE ChainInv'
<1> USE DEF At, Step, Answered
<1>1. CASE Paced(v)
  BY <1>1, MoveOK DEF Paced
<1>2. CASE Check(v)
  BY <1>2, MoveOK, ReturnOK DEF Check
<1>3. CASE Connect(v)
  BY <1>3, MoveOK DEF Connect
<1>4. CASE Lookup(v)
  BY <1>4, MoveOK, ReturnOK DEF Lookup
<1>5. CASE Final(v)
  BY <1>5, MoveOK DEF Final
<1>6. CASE TooManyRedirects(v)
  BY <1>6, ReturnOK DEF TooManyRedirects
<1>7. CASE RedirectAsIs(v)
  BY <1>7, MoveOK DEF RedirectAsIs
<1>8. CASE ReadBody(v)
  BY <1>8, ReturnOK DEF ReadBody
<1> QED
  BY <1>1, <1>2, <1>3, <1>4, <1>5, <1>6, <1>7, <1>8, SendOK, RedirectOK DEF Work

\* Every step keeps what a request may have spent.
LEMMA ChainInductive == ChainInv /\ [HttpNext]_httpVars => ChainInv'
<1>1. SUFFICES ASSUME ChainInv, [HttpNext]_httpVars PROVE ChainInv'
  OBVIOUS
<1>2. CASE Expire \/ UNCHANGED httpVars
  <2>1. UNCHANGED request
    BY <1>2 DEF Expire, httpVars
  <2> QED
    BY <1>1, <2>1 DEF ChainInv, HopOK
<1>3. ASSUME NEW v \in Requester, Execute(v) \/ Work(v) PROVE ChainInv'
  BY <1>1, <1>3, ExecuteOK, WorkOK
<1> QED
  BY <1>1, <1>2, <1>3 DEF HttpNext

(***************************************************************************)
(* A server that redirects and challenges for ever gets at most            *)
(* 2 * (max_redirects + 1) sends out of a request, and a chain cut by the  *)
(* budget is an error: it is never handed back as a response.              *)
(***************************************************************************)
THEOREM ChainStaysBounded == HttpSpec => []ChainIsBounded
<1>1. HttpInit => ChainInv
  BY IdleOK DEF HttpInit, ChainInv
<1>2. ChainInv => ChainIsBounded
  BY DEF ChainInv, ChainIsBounded, HopOK, At
<1> QED
  BY <1>1, <1>2, ChainInductive, PTL DEF HttpSpec

-----------------------------------------------------------------------------
(* The DNS cache.                                                          *)

\* A sequence of hosts in which none is twice.
Distinct(s) == s \in Seq(Host) /\ \A i, j \in 1..Len(s) : s[i] = s[j] => i = j

CacheInv ==
  /\ cacheMode \in CacheMode
  /\ Distinct(cache) /\ Len(cache) <= MaxEntries
  /\ expired \in 0..Len(cache)

\* What is left of the sequence from a position on is as distinct, and no longer.
LEMMA SuffixDistinct ==
  ASSUME NEW s, Distinct(s), NEW k \in Nat
  PROVE  /\ Distinct(SubSeq(s, k + 1, Len(s)))
         /\ Len(SubSeq(s, k + 1, Len(s))) = IF k <= Len(s) THEN Len(s) - k ELSE 0
         /\ \A i \in 1..Len(SubSeq(s, k + 1, Len(s))) : SubSeq(s, k + 1, Len(s))[i] = s[i + k]
<1>0. s \in Seq(Host) /\ Len(s) \in Nat
  BY DEF Distinct
<1> DEFINE r == SubSeq(s, k + 1, Len(s))
<1>1. r \in Seq(Host)
  BY <1>0
<1>2. Len(r) = IF k <= Len(s) THEN Len(s) - k ELSE 0
  BY <1>0
<1>3. \A i \in 1..Len(r) : r[i] = s[i + k]
  BY <1>0, <1>2
<1> HIDE DEF r
<1>4. \A i, j \in 1..Len(r) : r[i] = r[j] => i = j
  <2> SUFFICES ASSUME NEW i \in 1..Len(r), NEW j \in 1..Len(r), r[i] = r[j] PROVE i = j
    OBVIOUS
  <2>1. i + k \in 1..Len(s) /\ j + k \in 1..Len(s) /\ s[i + k] = s[j + k]
    BY <1>0, <1>2, <1>3
  <2>2. i + k = j + k
    BY <2>1 DEF Distinct
  <2> QED
    BY <2>2
<1> QED
  BY <1>1, <1>2, <1>3, <1>4 DEF r, Distinct

\* What two sequences make together.
LEMMA TwoParts ==
  ASSUME NEW a \in Seq(Host), NEW b \in Seq(Host)
  PROVE  /\ a \o b \in Seq(Host) /\ Len(a \o b) = Len(a) + Len(b)
         /\ \A i \in 1..Len(a) + Len(b) : (a \o b)[i] = IF i <= Len(a) THEN a[i] ELSE b[i - Len(a)]
OBVIOUS

\* Without the entry of h the others are as distinct, and h is not among them.
LEMMA OthersDistinct ==
  ASSUME NEW s, Distinct(s), NEW h \in Host
  PROVE  /\ Distinct(RemoveFirst(s, h))
         /\ Len(RemoveFirst(s, h)) <= Len(s)
         /\ \A i \in 1..Len(RemoveFirst(s, h)) : RemoveFirst(s, h)[i] # h
<1>0. s \in Seq(Host) /\ Len(s) \in Nat
  BY DEF Distinct
<1>1. CASE ~\E i \in 1..Len(s) : s[i] = h
  <2>1. RemoveFirst(s, h) = s
    BY <1>1 DEF RemoveFirst
  <2> QED
    BY <1>0, <1>1, <2>1
<1>2. ASSUME NEW k \in 1..Len(s), s[k] = h
      PROVE  /\ Distinct(RemoveFirst(s, h))
             /\ Len(RemoveFirst(s, h)) <= Len(s)
             /\ \A i \in 1..Len(RemoveFirst(s, h)) : RemoveFirst(s, h)[i] # h
  <2>1. {i \in 1..Len(s) : s[i] = h} = {k}
    BY <1>2 DEF Distinct
  <2>2. SelectInSeq(s, LAMBDA v : v = h) = k
    <3>1. Min({k}) = k
      BY <1>0 DEF Min
    <3> QED
      BY <2>1, <3>1 DEF SelectInSeq
  <2>3. RemoveFirst(s, h) = SubSeq(s, 1, k - 1) \o SubSeq(s, k + 1, Len(s))
    BY <1>2, <2>2 DEF RemoveFirst, RemoveAt
  <2> DEFINE front == SubSeq(s, 1, k - 1)
             back == SubSeq(s, k + 1, Len(s))
             r == front \o back
             p(i) == IF i < k THEN i ELSE i + 1
  <2>31. /\ front \in Seq(Host) /\ Len(front) = k - 1
        /\ \A i \in 1..k - 1 : front[i] = s[i]
    BY <1>0
  <2>32. /\ back \in Seq(Host) /\ Len(back) = Len(s) - k
        /\ \A i \in 1..Len(s) - k : back[i] = s[i + k]
    <3>1. back \in Seq(Host)
      BY <1>0
    <3>2. Len(back) = Len(s) - k
      BY <1>0
    <3> QED
      BY <1>0, <3>1, <3>2
  <2> HIDE DEF front, back
  <2>4. r \in Seq(Host) /\ Len(r) = Len(s) - 1
    <3>1. r \in Seq(Host) /\ Len(r) = Len(front) + Len(back)
      BY <2>31, <2>32, TwoParts
    <3>2. Len(front) + Len(back) = Len(s) - 1
      BY <1>0, <2>31, <2>32
    <3> QED
      BY <3>1, <3>2
  <2>5. \A i \in 1..Len(r) : r[i] = s[p(i)]
    <3> SUFFICES ASSUME NEW i \in 1..Len(r) PROVE r[i] = s[p(i)]
      OBVIOUS
    <3>1. CASE i < k
      <4>1. r[i] = front[i]
        BY <1>0, <2>31, <2>32, <2>4, <3>1, TwoParts
      <4> QED
        BY <2>31, <3>1, <4>1
    <3>2. CASE i >= k
      <4>1. r[i] = back[i - (k - 1)]
        BY <1>0, <2>31, <2>32, <2>4, <3>2, TwoParts
      <4>2. i - (k - 1) \in 1..Len(s) - k /\ i - (k - 1) + k = i + 1
        BY <1>0, <2>4, <3>2
      <4>3. back[i - (k - 1)] = s[i + 1]
        BY <2>32, <4>2
      <4> QED
        BY <3>2, <4>1, <4>3
    <3> QED
      BY <1>0, <2>4, <3>1, <3>2
  <2> HIDE DEF r
  <2>6. \A i \in 1..Len(r) : p(i) \in 1..Len(s) /\ p(i) # k
    BY <1>0, <2>4
  <2>7. \A i, j \in 1..Len(r) : p(i) = p(j) => i = j
    OBVIOUS
  <2> HIDE DEF p
  <2>8. \A i, j \in 1..Len(r) : r[i] = r[j] => i = j
    BY <2>5, <2>6, <2>7 DEF Distinct
  <2>9. \A i \in 1..Len(r) : r[i] # h
    BY <1>2, <2>5, <2>6 DEF Distinct
  <2>10. RemoveFirst(s, h) = r
    BY <2>3 DEF r, front, back
  <2> QED
    BY <1>0, <2>4, <2>8, <2>9, <2>10 DEF Distinct
<1> QED
  BY <1>1, <1>2

\* cache_put makes room for the host it puts, and keeps no older entry of it.
LEMMA EvictMakesRoom ==
  ASSUME NEW s, Distinct(s), Len(s) <= MaxEntries, NEW h \in Host
  PROVE  /\ Distinct(Append(Evict(s, h), h))
         /\ Len(Append(Evict(s, h), h)) <= MaxEntries
<1> DEFINE others == RemoveFirst(s, h)
           surplus == IF Len(s) >= MaxEntries THEN Len(s) + 1 - MaxEntries ELSE 0
           r == Evict(s, h)
<1>0. Len(s) \in Nat /\ MaxEntries \in Nat /\ MaxEntries >= 1 /\ surplus \in Nat
  BY HttpAssumption DEF Distinct
<1>1. Distinct(others) /\ Len(others) <= Len(s) /\ \A i \in 1..Len(others) : others[i] # h
  BY OthersDistinct
<1>2. r = SubSeq(others, surplus + 1, Len(others))
  BY DEF Evict
<1>3. surplus = IF Len(s) >= MaxEntries THEN 1 ELSE 0
  BY <1>0
<1> HIDE DEF others, surplus, r
<1>4. /\ Distinct(r)
      /\ Len(r) = IF surplus <= Len(others) THEN Len(others) - surplus ELSE 0
      /\ \A i \in 1..Len(r) : r[i] = others[i + surplus]
  BY <1>0, <1>1, <1>2, SuffixDistinct
<1>5. Len(others) \in Nat /\ Len(r) \in Nat /\ r \in Seq(Host)
  BY <1>1, <1>4 DEF Distinct
<1>6. \A i \in 1..Len(r) : r[i] # h
  <2> SUFFICES ASSUME NEW i \in 1..Len(r) PROVE r[i] # h
    OBVIOUS
  <2>1. i + surplus \in 1..Len(others)
    BY <1>0, <1>4, <1>5
  <2> QED
    BY <1>1, <1>4, <2>1
<1>7. Len(r) + 1 <= MaxEntries
  BY <1>0, <1>1, <1>3, <1>4, <1>5
<1>8. /\ Append(r, h) \in Seq(Host) /\ Len(Append(r, h)) = Len(r) + 1
      /\ \A i \in 1..Len(r) : Append(r, h)[i] = r[i]
      /\ Append(r, h)[Len(r) + 1] = h
  BY <1>5
<1>9. \A i, j \in 1..Len(r) + 1 : Append(r, h)[i] = Append(r, h)[j] => i = j
  <2> SUFFICES ASSUME NEW i \in 1..Len(r) + 1, NEW j \in 1..Len(r) + 1,
                      Append(r, h)[i] = Append(r, h)[j]
               PROVE  i = j
    OBVIOUS
  <2>1. CASE i \in 1..Len(r) /\ j \in 1..Len(r)
    BY <1>4, <1>8, <2>1 DEF Distinct
  <2>2. CASE i = Len(r) + 1 \/ j = Len(r) + 1
    BY <1>5, <1>6, <1>8, <2>2
  <2> QED
    BY <1>5, <2>1, <2>2
<1> QED
  BY <1>7, <1>8, <1>9 DEF r, Distinct

\* What is live when a host is put has each host once, and fits.
LEMMA LiveFits ==
  ASSUME CacheInv, NEW s \in Live
  PROVE  Distinct(s) /\ Len(s) <= MaxEntries
<1>0. cache \in Seq(Host) /\ Len(cache) \in Nat /\ expired \in Nat /\ MaxEntries \in Nat
      /\ expired <= Len(cache) /\ Len(cache) <= MaxEntries
  BY HttpAssumption DEF CacheInv, Distinct
<1>1. CASE cacheMode # "forever"
  <2>1. s = SubSeq(cache, expired + 1, Len(cache))
    BY <1>1 DEF Live
  <2>2. Distinct(s) /\ Len(s) = Len(cache) - expired
    BY <1>0, <2>1, SuffixDistinct DEF CacheInv
  <2> QED
    BY <1>0, <2>2
<1>2. CASE cacheMode = "forever"
  <2> DEFINE n == Cardinality(Range(cache))
  <2>1. s \in [1..n -> Range(cache)] /\ \A i, j \in 1..n : i # j => s[i] # s[j]
    BY <1>2 DEF Live, SetToSeqs
  <2>2. Range(cache) \subseteq Host
    BY <1>0 DEF Range
  <2>3. IsFiniteSet(1..Len(cache)) /\ Cardinality(1..Len(cache)) = Len(cache)
    <3>1. \A b \in Int : IsFiniteSet(1..b) /\ Cardinality(1..b) = IF 1 > b THEN 0 ELSE b - 1 + 1
      BY FS_Interval
    <3>2. /\ IsFiniteSet(1..Len(cache))
          /\ Cardinality(1..Len(cache)) = IF 1 > Len(cache) THEN 0 ELSE Len(cache) - 1 + 1
      BY <1>0, <3>1
    <3> QED
      BY <1>0, <3>2
  <2>4. cache \in Surjection(1..Len(cache), Range(cache))
    BY <1>0 DEF Surjection, Range
  <2>5. n <= Len(cache) /\ IsFiniteSet(Range(cache))
    BY <2>3, <2>4, FS_Surjection
  <2>6. n \in Nat
    BY <2>5, FS_CardinalityType
  <2> HIDE DEF n
  <2>7. s \in Seq(Host) /\ Len(s) = n
    BY <2>1, <2>2, <2>6
  <2> QED
    BY <1>0, <2>1, <2>5, <2>6, <2>7 DEF Distinct
<1> QED
  BY <1>1, <1>2

\* A put keeps the cache within its cap.
LEMMA PutKeepsCache ==
  ASSUME CacheInv, NEW h \in Host, CachePut(h), cacheMode' = cacheMode
  PROVE  CacheInv'
<1>1. CASE cacheMode = "off"
  BY <1>1 DEF CachePut, CacheInv, Distinct
<1>2. CASE cacheMode # "off"
  <2>1. PICK s \in Live : cache' = Append(Evict(s, h), h)
    BY <1>2 DEF CachePut
  <2>2. Distinct(cache') /\ Len(cache') <= MaxEntries
    BY <2>1, LiveFits, EvictMakesRoom
  <2>3. Len(cache') \in Nat /\ expired' = 0
    BY <1>2, <2>2 DEF CachePut, Distinct
  <2> QED
    BY <2>2, <2>3 DEF CacheInv, Distinct
<1> QED
  BY <1>1, <1>2

\* No VU has sent anything, and nothing is cached.
LEMMA HttpInitially == HttpInit => ChainInv /\ CacheInv
BY IdleOK, HttpAssumption DEF HttpInit, ChainInv, CacheInv, Distinct

\* Every step of the client keeps the cache bounded.
LEMMA CacheInductive == ChainInv /\ CacheInv /\ [HttpNext]_httpVars => CacheInv'
<1> SUFFICES ASSUME ChainInv, CacheInv, [HttpNext]_httpVars PROVE CacheInv'
  OBVIOUS
<1>1. CASE UNCHANGED cacheVars
  BY <1>1 DEF cacheVars, CacheInv, Distinct
<1>2. CASE Expire
  <2>1. UNCHANGED <<cacheMode, cache>> /\ expired' \in 0..Len(cache)
    BY <1>2 DEF Expire, CacheInv, Distinct
  <2> QED
    BY <2>1 DEF CacheInv, Distinct
<1>3. ASSUME NEW v \in Requester, Lookup(v) PROVE CacheInv'
  <2>1. request[v].host \in Host /\ cacheMode' = cacheMode
    BY <1>3 DEF ChainInv, Request, Lookup
  <2>2. CASE CachePut(request[v].host)
    BY <2>1, <2>2, PutKeepsCache
  <2>3. CASE UNCHANGED <<cache, expired>>
    BY <2>1, <2>3 DEF CacheInv, Distinct
  <2> QED
    BY <1>3, <2>2, <2>3 DEF Lookup
<1>4. CASE UNCHANGED httpVars
  BY <1>1, <1>4 DEF httpVars, cacheVars
<1> QED
  BY <1>1, <1>2, <1>3, <1>4 DEF HttpNext, Execute, Work, Paced, Check, Connect, Send, Final,
     TooManyRedirects, Redirect, RedirectAsIs, ReadBody

\* The DNS cache never holds more than MAX_CACHE_ENTRIES entries, nor two of one
\* host, for every number of VUs whose lookups overlap, every setting of dns.ttl
\* and whatever expires in between.
THEOREM CacheStaysBounded == HttpSpec => []CacheBounded
<1>1. CacheInv => CacheBounded
  BY DEF CacheInv, CacheBounded, Distinct
<1> QED
  BY <1>1, HttpInitially, CacheInductive, ChainInductive, PTL DEF HttpSpec

-----------------------------------------------------------------------------
(***************************************************************************)
(* The metrics pipeline.  ResultsAreWhole is about the end of a run; what  *)
(* makes it inductive is where each sample is on the way there: with a VU  *)
(* that has not come to its shard yet, in the queue of the shard, in its   *)
(* totals, or dropped and counted (Accounted).                             *)
(***************************************************************************)

\* A request for the results in a queue, the batches that wait in it, and the
\* VUs whose batch has not passed shard s yet.
Asked(q) == \E i \in DOMAIN q : q[i] = "get"
Waiting(q) == Len(q) - IF Asked(q) THEN 1 ELSE 0
Sending(r, s) == {v \in Recorder : r[v].next \in 1..s}

\* The samples of each metric that have been sent and not dropped.
Flow(so, to, q, r) ==
  [m \in Metric |-> to[so[m]][m] + Waiting(q[so[m]]) + Cardinality(Sending(r, so[m]))]

\* The stream: what the output has taken off the ring it has emitted, holds, or
\* has counted as lost, and unless it fails it ends only after the last sender.
StreamInv ==
  /\ output.pos = output.emitted + output.batch + output.lagged
  /\ output.pos <= sent
  /\ ~output.open /\ ~output.failed =>
       output.pos = sent /\ output.batch = 0 /\ ringSenders = {}
  /\ main \in {"ask", "collect", "done"} => ~output.open

\* The VUs record only while the scenarios run, and then on the ring too, but for
\* the strays; only a VU about to send holds a sender.
VusInv ==
  /\ \A v \in Recorder : recorder[v].next > 0 => recorder[v].left > 0
  /\ main # "scenarios" /\ stray = {} => \A v \in Recorder : recorder[v].left = 0
  /\ main = "scenarios" => "collector" \in ringSenders /\ stray = {}

\* The request is the last message of a shard, and the answer to it is the
\* shard's state for good, if no VU strays.
AnswerStands(s) ==
  stray = {} /\ answers[s].given =>
    /\ queue[s] = <<>> /\ main \in {"ask", "collect", "done"}
    /\ answers[s].totals = totals[s] /\ answers[s].headline = headline[s]
    /\ answers[s].capped = capped[s]
LastAsked(s) ==
  stray = {} =>
    \A i \in DOMAIN queue[s] :
      queue[s][i] = "get" => i = Len(queue[s]) /\ main \in {"ask", "collect"}
AnswersInv ==
  /\ \A s \in Shard : LastAsked(s) /\ AnswerStands(s)
  /\ main = "done" => \A s \in Shard : answers[s].given

\* In any case it is a state of the shard: its own metrics only, all of them in
\* the headline.
AnswersShape ==
  \A s \in Shard :
    /\ answers[s].headline = answers[s].totals
    /\ \A m \in Metric : shardOf[m] # s => answers[s].totals[m] = 0

\* A shard has its own metrics only, all of them in its headline, and each
\* sample in a series or counted as one for which there was no room.
ShardSums(s) ==
  /\ headline[s] = totals[s]
  /\ \A m \in Metric : shardOf[m] # s => totals[s][m] = 0
  /\ Cardinality(Present(s)) <= MaxSeries
  /\ SumFunction(series[s]) + capped[s] = SumFunction(totals[s])
ShardsInv == \A s \in Shard : ShardSums(s)

\* Every sample sent has been dropped and counted, or is in the flow, if no VU
\* strays.
Accounted == stray = {} => sent = lost + SumFunction(Flow(shardOf, totals, queue, recorder))

PipeInv ==
  PipeTypeOK /\ StreamInv /\ VusInv /\ AnswersInv /\ AnswersShape /\ ShardsInv /\ Accounted

-----------------------------------------------------------------------------
\* The constants, one by one.
LEMMA PipeConstants ==
  /\ NumShards \in Nat \ {0} /\ QueueCap \in Nat \ {0} /\ MaxSeries \in Nat \ {0}
  /\ RingCap \in Nat \ {0} /\ MaxBatch \in Nat \ {0} /\ Batches \in Nat \ {0}
  /\ IsFiniteSet(Recorder) /\ IsFiniteSet(Metric) /\ IsFiniteSet(Tag)
  /\ IsFiniteSet(Shard) /\ IsFiniteSet(Metric \X Tag)
<1>1. NumShards \in Nat \ {0} /\ QueueCap \in Nat \ {0} /\ MaxSeries \in Nat \ {0}
  /\ RingCap \in Nat \ {0} /\ MaxBatch \in Nat \ {0} /\ Batches \in Nat \ {0}
  BY PipelineAssumption
<1>2. IsFiniteSet(Recorder) /\ IsFiniteSet(Metric) /\ IsFiniteSet(Tag)
  BY PipelineAssumption
<1>3. IsFiniteSet(Shard)
  BY <1>1, FS_Interval DEF Shard
<1>4. IsFiniteSet(Metric \X Tag)
  BY <1>2, FS_Product
<1> QED
  BY <1>1, <1>2, <1>3, <1>4

\* The flow is a number of samples for each metric.
LEMMA FlowType ==
  ASSUME NEW so \in [Metric -> Shard], NEW to \in [Shard -> [Metric -> Nat]],
         NEW q \in [Shard -> Seq(Tag \cup {"get"})],
         NEW r \in [Recorder -> [left : 0..Batches, next : 0..NumShards, tag : Tag]]
  PROVE  /\ Flow(so, to, q, r) \in [Metric -> Int]
         /\ \A m \in Metric :
              /\ to[so[m]][m] \in Nat /\ Waiting(q[so[m]]) \in Int
              /\ Cardinality(Sending(r, so[m])) \in Nat
              /\ Flow(so, to, q, r)[m] =
                   to[so[m]][m] + Waiting(q[so[m]]) + Cardinality(Sending(r, so[m]))
<1>1. \A s \in Shard : Waiting(q[s]) \in Int
  BY DEF Waiting
<1>2. \A s \in Shard : Cardinality(Sending(r, s)) \in Nat
  <2> SUFFICES ASSUME NEW s \in Shard PROVE Cardinality(Sending(r, s)) \in Nat
    OBVIOUS
  <2>1. Sending(r, s) \in SUBSET Recorder
    BY DEF Sending
  <2> QED
    BY <2>1, PipeConstants, FS_Subset, FS_CardinalityType
<1>3. \A m \in Metric : so[m] \in Shard /\ to[so[m]][m] \in Nat
  OBVIOUS
<1> QED
  BY <1>1, <1>2, <1>3 DEF Flow

\* Two flows with the same terms are the same.
LEMMA FlowSame ==
  ASSUME NEW so \in [Metric -> Shard], NEW to, NEW q, NEW r, NEW to2, NEW q2, NEW r2,
         \A m \in Metric :
           to[so[m]][m] + Waiting(q[so[m]]) + Cardinality(Sending(r, so[m])) =
           to2[so[m]][m] + Waiting(q2[so[m]]) + Cardinality(Sending(r2, so[m]))
  PROVE  Flow(so, to, q, r) = Flow(so, to2, q2, r2)
BY DEF Flow

\* The metrics of a shard.
LEMMA PartIsFinite ==
  ASSUME NEW s
  PROVE  /\ PartFor(s) \in SUBSET Metric /\ IsFiniteSet(PartFor(s))
         /\ Cardinality(PartFor(s)) \in Nat
         /\ \A m \in Metric : m \in PartFor(s) <=> shardOf[m] = s
<1>1. PartFor(s) \in SUBSET Metric /\ \A m \in Metric : m \in PartFor(s) <=> shardOf[m] = s
  BY DEF PartFor, ShardForName
<1> QED
  BY <1>1, PipeConstants, FS_Subset, FS_CardinalityType

-----------------------------------------------------------------------------
\* The output's own steps, and the end of the stream.
LEMMA OutputKeeps ==
  ASSUME PipeInv, Receive \/ FlushTick \/ CloseOutput \/ OutputFails
  PROVE  PipeInv'
<1>0. UNCHANGED <<shardOf, recorder, queue, totals, headline, series, capped, lost,
                  ringSenders, sent, stray, main, answers>>
  BY DEF Receive, FlushTick, CloseOutput, OutputFails, aggVars
<1>1. output \in [pos : Nat, batch : Nat, emitted : Nat, lagged : Nat, open : BOOLEAN, failed : BOOLEAN]
      /\ sent \in Nat
  BY DEF PipeInv, PipeTypeOK
<1>2. output' \in [pos : Nat, batch : Nat, emitted : Nat, lagged : Nat, open : BOOLEAN, failed : BOOLEAN]
      /\ StreamInv'
  <2>1. CASE Receive
    <3>1. output.open /\ output.pos < sent
      BY <2>1 DEF Receive
    <3>2. CASE sent - output.pos > RingCap
      <4>1. output' = [output EXCEPT !.lagged = @ + (sent - RingCap - output.pos),
                                     !.pos = sent - RingCap]
        BY <2>1, <3>2 DEF Receive
      <4>2. /\ output'.pos = sent - RingCap /\ output'.batch = output.batch
            /\ output'.lagged = output.lagged + (sent - RingCap - output.pos)
            /\ output'.emitted = output.emitted /\ output'.open = output.open /\ output'.failed = output.failed
        BY <4>1, <1>1
      <4>3. output' \in [pos : Nat, batch : Nat, emitted : Nat, lagged : Nat, open : BOOLEAN, failed : BOOLEAN]
        <5>1. sent - RingCap \in Nat /\ output.lagged + (sent - RingCap - output.pos) \in Nat
          BY <1>1, <3>2, PipeConstants
        <5> QED
          BY <4>1, <5>1, <1>1
      <4> QED
        BY <4>2, <4>3, <1>0, <1>1, <3>1, <3>2, PipeConstants DEF PipeInv, StreamInv
    <3>3. CASE ~(sent - output.pos > RingCap) /\ output.batch + 1 >= MaxBatch
      <4>1. output' = [output EXCEPT !.pos = @ + 1, !.emitted = @ + output.batch + 1, !.batch = 0]
        BY <2>1, <3>3 DEF Receive
      <4>2. /\ output'.pos = output.pos + 1 /\ output'.batch = 0
            /\ output'.emitted = output.emitted + output.batch + 1
            /\ output'.lagged = output.lagged /\ output'.open = output.open /\ output'.failed = output.failed
        BY <4>1, <1>1
      <4>3. output' \in [pos : Nat, batch : Nat, emitted : Nat, lagged : Nat, open : BOOLEAN, failed : BOOLEAN]
        <5>1. output.pos + 1 \in Nat /\ output.batch + 1 \in Nat
              /\ output.emitted + output.batch + 1 \in Nat
          BY <1>1
        <5> QED
          BY <4>1, <5>1, <1>1
      <4> QED
        BY <4>2, <4>3, <1>0, <1>1, <3>1 DEF PipeInv, StreamInv
    <3>4. CASE ~(sent - output.pos > RingCap) /\ ~(output.batch + 1 >= MaxBatch)
      <4>1. output' = [output EXCEPT !.pos = @ + 1, !.batch = @ + 1]
        BY <2>1, <3>4 DEF Receive
      <4>2. /\ output'.pos = output.pos + 1 /\ output'.batch = output.batch + 1
            /\ output'.emitted = output.emitted
            /\ output'.lagged = output.lagged /\ output'.open = output.open /\ output'.failed = output.failed
        BY <4>1, <1>1
      <4>3. output' \in [pos : Nat, batch : Nat, emitted : Nat, lagged : Nat, open : BOOLEAN, failed : BOOLEAN]
        <5>1. output.pos + 1 \in Nat /\ output.batch + 1 \in Nat
              /\ output.emitted + output.batch + 1 \in Nat
          BY <1>1
        <5> QED
          BY <4>1, <5>1, <1>1
      <4> QED
        BY <4>2, <4>3, <1>0, <1>1, <3>1 DEF PipeInv, StreamInv
    <3> QED
      BY <3>2, <3>3, <3>4
  <2>2. CASE FlushTick
    <3>1. /\ output'.pos = output.pos /\ output'.batch = 0
          /\ output'.emitted = output.emitted + output.batch
          /\ output'.lagged = output.lagged /\ output'.open = output.open /\ output'.failed = output.failed
      BY <2>2, <1>1 DEF FlushTick
    <3>2. output' \in [pos : Nat, batch : Nat, emitted : Nat, lagged : Nat, open : BOOLEAN, failed : BOOLEAN]
      <4>1. output.emitted + output.batch \in Nat
        BY <1>1
      <4> QED
        BY <2>2, <4>1, <1>1 DEF FlushTick
    <3> QED
      BY <3>1, <3>2, <1>0, <1>1 DEF PipeInv, StreamInv
  <2>3. CASE CloseOutput
    <3>1. /\ output'.pos = output.pos /\ output'.batch = 0
          /\ output'.emitted = output.emitted + output.batch
          /\ output'.lagged = output.lagged /\ output'.open = FALSE /\ output'.failed = output.failed
          /\ output.pos = sent /\ ringSenders = {}
      BY <2>3, <1>1 DEF CloseOutput
    <3>2. output' \in [pos : Nat, batch : Nat, emitted : Nat, lagged : Nat, open : BOOLEAN, failed : BOOLEAN]
      <4>1. output.emitted + output.batch \in Nat
        BY <1>1
      <4> QED
        BY <2>3, <4>1, <1>1 DEF CloseOutput
    <3> QED
      BY <3>1, <3>2, <1>0, <1>1 DEF PipeInv, StreamInv
  <2>4. CASE OutputFails
    <3>1. /\ output'.pos = output.pos /\ output'.batch = output.batch
          /\ output'.emitted = output.emitted /\ output'.lagged = output.lagged
          /\ output'.open = FALSE /\ output'.failed = TRUE
      BY <2>4, <1>1 DEF OutputFails
    <3>2. output' \in [pos : Nat, batch : Nat, emitted : Nat, lagged : Nat, open : BOOLEAN, failed : BOOLEAN]
      BY <2>4, <1>1 DEF OutputFails
    <3> QED
      BY <3>1, <3>2, <1>0, <1>1 DEF PipeInv, StreamInv
  <2> QED
    BY <2>1, <2>2, <2>3, <2>4
<1>3. PipeTypeOK'
  BY <1>0, <1>2 DEF PipeInv, PipeTypeOK
<1>4. VusInv'
  BY <1>0 DEF PipeInv, VusInv
<1>5. AnswersInv' /\ AnswersShape'
  BY <1>0 DEF PipeInv, AnswersInv, AnswerStands, LastAsked, AnswersShape
<1>6. ShardsInv'
  BY <1>0 DEF PipeInv, ShardsInv, ShardSums, Present
<1>7. Accounted'
  BY <1>0 DEF PipeInv, Accounted
<1> QED
  BY <1>2, <1>3, <1>4, <1>5, <1>6, <1>7 DEF PipeInv

\* The end of the run, up to the requests.
LEMMA MainKeeps ==
  ASSUME PipeInv, JoinScenarios \/ Unsink \/ DropTx \/ AwaitOutputs \/ Collect
  PROVE  PipeInv'
<1>0. UNCHANGED <<shardOf, recorder, queue, totals, headline, series, capped, lost, sent,
                  output, answers>>
  BY DEF JoinScenarios, Unsink, DropTx, AwaitOutputs, Collect, aggVars
<1>1. ringSenders' \subseteq ringSenders
      /\ main' \in {"unsink", "dropTx", "outputs", "ask", "done"}
      /\ (main' = "done" => main = "collect" /\ \A s \in Shard : answers[s].given)
      /\ (main' = "ask" => ~output.open)
      /\ main \notin {"ask", "done"} /\ (main = "collect" => main' = "done")
  BY DEF JoinScenarios, Unsink, DropTx, AwaitOutputs, Collect
<1>2. /\ main = "scenarios" => stray' = {v \in Recorder : recorder[v].left > 0}
      /\ main # "scenarios" => stray' = stray
  BY DEF JoinScenarios, Unsink, DropTx, AwaitOutputs, Collect
<1>3. stray' = {} => stray = {}
  BY <1>2 DEF PipeInv, VusInv
<1>4. PipeTypeOK'
  <2>1. ringSenders' \subseteq {"collector", "engine"} \cup Recorder
        /\ main' \in {"scenarios", "unsink", "dropTx", "outputs", "ask", "collect", "done"}
    BY <1>1 DEF PipeInv, PipeTypeOK
  <2>2. stray' \subseteq Recorder
    BY <1>2 DEF PipeInv, PipeTypeOK
  <2> QED
    BY <1>0, <2>1, <2>2 DEF PipeInv, PipeTypeOK
<1>5. StreamInv'
  BY <1>0, <1>1 DEF PipeInv, StreamInv
<1>6. VusInv'
  <2>1. ASSUME stray' = {}, NEW v \in Recorder PROVE recorder[v].left = 0
    <3>1. recorder[v].left \in 0..Batches /\ Batches \in Nat
      BY PipeConstants DEF PipeInv, PipeTypeOK
    <3>2. CASE main = "scenarios"
      <4>1. ~(recorder[v].left > 0)
        BY <1>2, <2>1, <3>2
      <4> QED
        BY <3>1, <4>1
    <3>3. CASE main # "scenarios"
      BY <1>3, <2>1, <3>3 DEF PipeInv, VusInv
    <3> QED
      BY <3>2, <3>3
  <2> QED
    BY <1>0, <1>1, <2>1 DEF PipeInv, VusInv
<1>7. AnswersInv'
  <2>1. ASSUME NEW s \in Shard PROVE LastAsked(s)' /\ AnswerStands(s)'
    <3>1. LastAsked(s) /\ AnswerStands(s)
      BY DEF PipeInv, AnswersInv
    <3>2. AnswerStands(s)'
      BY <1>0, <1>1, <1>3, <3>1 DEF AnswerStands
    <3>3. CASE main = "collect"
      <4>1. stray = {} => queue[s] = <<>>
        BY <1>1, <3>1, <3>3 DEF AnswerStands
      <4> QED
        BY <1>0, <1>3, <3>2, <4>1 DEF LastAsked
    <3>4. CASE main # "collect"
      BY <1>0, <1>1, <1>3, <3>1, <3>2, <3>4 DEF LastAsked
    <3> QED
      BY <3>3, <3>4
  <2> QED
    BY <1>0, <1>1, <2>1 DEF AnswersInv
<1>8. ShardsInv' /\ AnswersShape'
  BY <1>0 DEF PipeInv, ShardsInv, ShardSums, Present, AnswersShape
<1>9. Accounted'
  BY <1>0, <1>3 DEF PipeInv, Accounted
<1> QED
  BY <1>4, <1>5, <1>6, <1>7, <1>8, <1>9 DEF PipeInv

\* The parts of the invariant that a VU's step leaves alone: it changes its
\* record, what is sent, what is lost and, by a batch, a queue.
LEMMA VuFrame ==
  ASSUME PipeInv,
         UNCHANGED <<shardOf, totals, headline, series, capped, output, stray, main, answers>>,
         recorder' \in [Recorder -> [left : 0..Batches, next : 0..NumShards, tag : Tag]],
         queue' \in [Shard -> Seq(Tag \cup {"get"})],
         ringSenders' \subseteq {"collector", "engine"} \cup Recorder,
         ringSenders = {} => ringSenders' = {} /\ sent' = sent,
         lost' \in Nat, sent' \in Nat, sent' >= sent
  PROVE  PipeTypeOK' /\ StreamInv' /\ ShardsInv' /\ AnswersShape'
<1>1. PipeTypeOK'
  BY DEF PipeInv, PipeTypeOK
<1>2. StreamInv'
  <2>1. /\ output.pos \in Nat /\ sent \in Nat
    BY DEF PipeInv, PipeTypeOK
  <2>2. ~output.open /\ ~output.failed => sent' = sent /\ ringSenders' = {}
    BY DEF PipeInv, StreamInv
  <2> QED
    BY <2>1, <2>2 DEF PipeInv, StreamInv
<1>3. ShardsInv' /\ AnswersShape'
  BY DEF PipeInv, ShardsInv, ShardSums, Present, AnswersShape
<1> QED
  BY <1>1, <1>2, <1>3

\* A VU's record.
LEMMA RecorderIs ==
  ASSUME PipeTypeOK, NEW v \in Recorder
  PROVE  recorder[v] \in [left : 0..Batches, next : 0..NumShards, tag : Tag]
BY DEF PipeTypeOK

\* A VU that stops.
LEMMA StopKeeps ==
  ASSUME PipeInv, NEW v \in Recorder, Stop(v)
  PROVE  PipeInv'
<1>0. UNCHANGED <<shardOf, queue, totals, headline, series, capped, lost, ringSenders, sent, output,
                  stray, main, answers>>
  BY DEF Stop, aggVars
<1>1. /\ recorder[v].next = 0 /\ recorder' = [recorder EXCEPT ![v].left = 0]
      /\ recorder \in [Recorder -> [left : 0..Batches, next : 0..NumShards, tag : Tag]]
  BY DEF Stop, PipeInv, PipeTypeOK
<1>2. recorder' \in [Recorder -> [left : 0..Batches, next : 0..NumShards, tag : Tag]]
  <2>1. 0 \in 0..Batches
    BY PipeConstants
  <2> QED
    BY <1>1, <2>1
<1>3. PipeTypeOK' /\ StreamInv' /\ ShardsInv' /\ AnswersShape'
  <2>1. queue \in [Shard -> Seq(Tag \cup {"get"})] /\ lost \in Nat /\ sent \in Nat
        /\ ringSenders \subseteq {"collector", "engine"} \cup Recorder
    BY DEF PipeInv, PipeTypeOK
  <2> QED
    BY <1>0, <1>2, <2>1, VuFrame
<1>4. \A w \in Recorder : /\ recorder'[w].next = recorder[w].next
                          /\ recorder'[w].left = IF w = v THEN 0 ELSE recorder[w].left
  BY <1>1
<1>5. VusInv'
  BY <1>0, <1>1, <1>4 DEF PipeInv, VusInv
<1>6. AnswersInv'
  BY <1>0 DEF PipeInv, AnswersInv, AnswerStands, LastAsked
<1>7. Accounted'
  <2>1. \A s : Sending(recorder', s) = Sending(recorder, s)
    BY <1>4 DEF Sending
  <2>2. Flow(shardOf, totals, queue, recorder) = Flow(shardOf, totals, queue, recorder')
    BY <2>1 DEF Flow
  <2> QED
    BY <1>0, <2>2 DEF PipeInv, Accounted
<1> QED
  BY <1>3, <1>5, <1>6, <1>7 DEF PipeInv

\* A VU takes a clone of the sender.
LEMMA CloneKeeps ==
  ASSUME PipeInv, NEW v \in Recorder, CloneSink(v)
  PROVE  PipeInv'
<1>0. UNCHANGED <<shardOf, recorder, queue, totals, headline, series, capped, lost, sent, output,
                  stray, main, answers>>
  BY DEF CloneSink, aggVars
<1>1. "collector" \in ringSenders /\ ringSenders' = ringSenders \cup {v}
  BY DEF CloneSink
<1>2. /\ recorder \in [Recorder -> [left : 0..Batches, next : 0..NumShards, tag : Tag]]
      /\ queue \in [Shard -> Seq(Tag \cup {"get"})] /\ lost \in Nat /\ sent \in Nat
      /\ ringSenders' \subseteq {"collector", "engine"} \cup Recorder
  BY <1>1 DEF PipeInv, PipeTypeOK
<1>3. PipeTypeOK' /\ StreamInv' /\ ShardsInv' /\ AnswersShape'
  BY <1>0, <1>1, <1>2, VuFrame
<1>4. VusInv'
  BY <1>0, <1>1 DEF PipeInv, VusInv
<1>5. AnswersInv'
  BY <1>0 DEF PipeInv, AnswersInv, AnswerStands, LastAsked
<1>6. Accounted'
  BY <1>0 DEF PipeInv, Accounted
<1> QED
  BY <1>3, <1>4, <1>5, <1>6 DEF PipeInv

\* A batch that is put on the ring is in the flow with all its samples.
LEMMA ForwardKeeps ==
  ASSUME PipeInv, NEW v \in Recorder, Forward(v)
  PROVE  PipeInv'
<1>0. UNCHANGED <<shardOf, queue, totals, headline, series, capped, lost, output,
                  stray, main, answers>>
  BY DEF Forward, aggVars
<1>1. PICK t \in Tag : recorder' = [recorder EXCEPT ![v].next = 1, ![v].tag = t]
  BY DEF Forward
<1>2. /\ recorder[v].left > 0 /\ recorder[v].next = 0
      /\ recorder \in [Recorder -> [left : 0..Batches, next : 0..NumShards, tag : Tag]]
      /\ queue \in [Shard -> Seq(Tag \cup {"get"})]
      /\ totals \in [Shard -> [Metric -> Nat]] /\ shardOf \in [Metric -> Shard]
      /\ lost \in Nat /\ sent \in Nat
  BY DEF Forward, PipeInv, PipeTypeOK
<1>3. recorder' \in [Recorder -> [left : 0..Batches, next : 0..NumShards, tag : Tag]]
  <2>1. 1 \in 0..NumShards
    BY PipeConstants
  <2> QED
    BY <1>1, <1>2, <2>1
<1>4. stray = {} => main = "scenarios" /\ "collector" \in ringSenders
  BY <1>2 DEF PipeInv, VusInv
<1>5. /\ Cardinality(Metric) \in Nat /\ ringSenders' = ringSenders \ {v}
      /\ sent' = sent + IF v \in ringSenders THEN Cardinality(Metric) ELSE 0
      /\ "collector" \in ringSenders => v \in ringSenders
  BY PipeConstants, FS_CardinalityType DEF Forward
<1>6. PipeTypeOK' /\ StreamInv' /\ ShardsInv' /\ AnswersShape'
  <2>1. sent' \in Nat /\ sent' >= sent /\ (v \notin ringSenders => sent' = sent)
    BY <1>2, <1>5
  <2>2. ringSenders' \subseteq {"collector", "engine"} \cup Recorder
    BY <1>5 DEF PipeInv, PipeTypeOK
  <2>3. ringSenders = {} => ringSenders' = {} /\ sent' = sent
    BY <1>5, <2>1
  <2> QED
    BY <1>0, <1>2, <1>3, <2>1, <2>2, <2>3, VuFrame
<1>7. \A w \in Recorder : /\ recorder'[w].left = recorder[w].left
                          /\ recorder'[w].next = IF w = v THEN 1 ELSE recorder[w].next
  BY <1>1, <1>2
<1>8. VusInv'
  <2>1. "collector" \in ringSenders => "collector" \in ringSenders'
    BY <1>5, PipelineAssumption
  <2>2. VusInv
    BY DEF PipeInv
  <2>3. \A w \in Recorder : recorder'[w].next > 0 => recorder'[w].left > 0
    BY <1>2, <1>7, <2>2 DEF VusInv
  <2>4. main # "scenarios" /\ stray = {} => \A w \in Recorder : recorder'[w].left = 0
    BY <1>7, <2>2 DEF VusInv
  <2>5. main = "scenarios" => "collector" \in ringSenders' /\ stray = {}
    BY <2>1, <2>2 DEF VusInv
  <2> QED
    BY <1>0, <2>3, <2>4, <2>5 DEF VusInv
<1>9. AnswersInv'
  BY <1>0 DEF PipeInv, AnswersInv, AnswerStands, LastAsked
<1>10. ASSUME stray = {} PROVE Accounted'
  <2> DEFINE f == Flow(shardOf, totals, queue, recorder)
             h == Flow(shardOf, totals, queue, recorder')
  <2>1. f \in [Metric -> Int] /\ h \in [Metric -> Int]
    BY <1>2, <1>3, FlowType
  <2>2. ASSUME NEW s \in Shard
        PROVE  Cardinality(Sending(recorder', s)) = Cardinality(Sending(recorder, s)) + 1
    <3>1. s \in Nat /\ s >= 1
      BY PipeConstants DEF Shard
    <3>2. Sending(recorder', s) = Sending(recorder, s) \cup {v} /\ v \notin Sending(recorder, s)
      BY <1>2, <1>7, <3>1 DEF Sending
    <3>3. IsFiniteSet(Sending(recorder, s))
      <4>1. Sending(recorder, s) \in SUBSET Recorder
        BY DEF Sending
      <4> QED
        BY <4>1, PipeConstants, FS_Subset
    <3> QED
      BY <3>2, <3>3, FS_AddElement
  <2>3. \A m \in Metric : h[m] = f[m] + IF m \in Metric THEN 1 ELSE 0
    <3> SUFFICES ASSUME NEW m \in Metric PROVE h[m] = f[m] + 1
      OBVIOUS
    <3>1. shardOf[m] \in Shard
      BY <1>2
    <3>2. /\ totals[shardOf[m]][m] \in Nat /\ Waiting(queue[shardOf[m]]) \in Int
          /\ Cardinality(Sending(recorder, shardOf[m])) \in Nat
          /\ f[m] = totals[shardOf[m]][m] + Waiting(queue[shardOf[m]])
                      + Cardinality(Sending(recorder, shardOf[m]))
      BY <1>2, FlowType
    <3>3. h[m] = totals[shardOf[m]][m] + Waiting(queue[shardOf[m]])
                      + Cardinality(Sending(recorder', shardOf[m]))
      BY <1>2, <1>3, FlowType
    <3> HIDE DEF f, h
    <3> QED
      BY <2>2, <3>1, <3>2, <3>3
  <2> HIDE DEF f, h
  <2>4. SumFunction(h) = SumFunction(f) + Cardinality(Metric)
    BY <2>1, <2>3, PipeConstants, SumRaised
  <2>5. SumFunction(f) \in Int
    BY <2>1, PipeConstants, SumIsInt
  <2>6. sent = lost + SumFunction(f)
    BY <1>10 DEF PipeInv, Accounted, f
  <2>7. sent' = lost' + SumFunction(h)
    <3>1. sent' = sent + Cardinality(Metric)
      BY <1>4, <1>5, <1>10
    <3> QED
      BY <1>0, <1>2, <1>5, <2>4, <2>5, <2>6, <3>1
  <2> QED
    BY <1>0, <2>7 DEF Accounted, h
<1>11. Accounted'
  BY <1>0, <1>10 DEF Accounted
<1> QED
  BY <1>6, <1>8, <1>9, <1>11 DEF PipeInv

\* What a message at the end of a queue does to the batches that wait in it.
LEMMA QueueAppend ==
  ASSUME NEW q \in Seq(Tag \cup {"get"}), ~Asked(q), NEW t \in Tag \cup {"get"}
  PROVE  /\ Append(q, t) \in Seq(Tag \cup {"get"})
         /\ Waiting(Append(q, t)) = Waiting(q) + IF t = "get" THEN 0 ELSE 1
         /\ \A i \in DOMAIN Append(q, t) : Append(q, t)[i] = "get" => t = "get" /\ i = Len(Append(q, t))
<1>1. Append(q, t) \in Seq(Tag \cup {"get"}) /\ Len(Append(q, t)) = Len(q) + 1
      /\ DOMAIN q = 1..Len(q) /\ DOMAIN Append(q, t) = 1..(Len(q) + 1)
      /\ Len(q) \in Nat
  OBVIOUS
<1>2. \A i \in 1..(Len(q) + 1) : Append(q, t)[i] = IF i = Len(q) + 1 THEN t ELSE q[i]
  OBVIOUS
<1>3. \A i \in 1..(Len(q) + 1) : i # Len(q) + 1 => i \in DOMAIN q
  BY <1>1
<1>4. \A i \in DOMAIN Append(q, t) : Append(q, t)[i] = "get" => t = "get" /\ i = Len(Append(q, t))
  BY <1>1, <1>2, <1>3 DEF Asked
<1>5. Asked(Append(q, t)) <=> t = "get"
  <2>1. Len(q) + 1 \in 1..(Len(q) + 1)
    BY <1>1
  <2> QED
    BY <1>1, <1>2, <1>4, <2>1 DEF Asked
<1>6. Waiting(q) = Len(q)
  BY <1>1 DEF Waiting
<1>7. Waiting(Append(q, t)) = Len(q) + 1 - IF t = "get" THEN 1 ELSE 0
  BY <1>1, <1>5 DEF Waiting
<1>8. Waiting(Append(q, t)) = Waiting(q) + IF t = "get" THEN 0 ELSE 1
  BY <1>1, <1>6, <1>7
<1> QED
  BY <1>1, <1>4, <1>8

\* A batch on its way to shard s is queued there, or dropped and counted.
LEMMA TrySendKeeps ==
  ASSUME PipeInv, NEW v \in Recorder, TrySend(v)
  PROVE  PipeInv'
<1> DEFINE s == recorder[v].next
           t == recorder[v].tag
           fits == PartFor(s) # {} /\ Len(queue[s]) < QueueCap
<1>0. UNCHANGED <<shardOf, totals, headline, series, capped, ringSenders, sent, output,
                  stray, main, answers>>
  BY DEF TrySend, aggVars
<1>1. /\ s > 0
      /\ queue' = [queue EXCEPT ![s] = IF fits THEN Append(@, t) ELSE @]
      /\ lost' = lost + LostBy(s)
      /\ recorder' = [recorder EXCEPT ![v].next = IF s = NumShards THEN 0 ELSE s + 1,
                                      ![v].left = IF s = NumShards THEN @ - 1 ELSE @]
  BY DEF TrySend
<1>2. /\ recorder \in [Recorder -> [left : 0..Batches, next : 0..NumShards, tag : Tag]]
      /\ queue \in [Shard -> Seq(Tag \cup {"get"})]
      /\ totals \in [Shard -> [Metric -> Nat]] /\ shardOf \in [Metric -> Shard]
      /\ lost \in Nat /\ sent \in Nat
  BY DEF PipeInv, PipeTypeOK
<1>3. s \in Shard /\ s \in Nat /\ t \in Tag /\ recorder[v].left \in 0..Batches
  BY <1>1, <1>2, PipeConstants DEF Shard
<1>4. recorder[v].left > 0 /\ (stray = {} => main = "scenarios")
  BY <1>1, <1>3 DEF PipeInv, VusInv
<1> DEFINE nx == IF s = NumShards THEN 0 ELSE s + 1
           lf == IF s = NumShards THEN recorder[v].left - 1 ELSE recorder[v].left
<1>5. nx \in 0..NumShards /\ lf \in 0..Batches /\ (nx > 0 => lf > 0)
  BY <1>3, <1>4, PipeConstants DEF Shard
<1>6. recorder' = [recorder EXCEPT ![v].next = nx, ![v].left = lf]
  BY <1>1, <1>2
<1> HIDE DEF nx, lf
<1>7. recorder' \in [Recorder -> [left : 0..Batches, next : 0..NumShards, tag : Tag]]
  BY <1>2, <1>5, <1>6
<1>8. \A w \in Recorder : /\ recorder'[w].left = IF w = v THEN lf ELSE recorder[w].left
                          /\ recorder'[w].next = IF w = v THEN nx ELSE recorder[w].next
  BY <1>2, <1>6
<1>9. (stray = {} => ~Asked(queue[s])) /\ Asked(queue[s]) \in BOOLEAN
  BY <1>3, <1>4 DEF PipeInv, AnswersInv, LastAsked, Asked
<1> DEFINE q == IF fits THEN Append(queue[s], t) ELSE queue[s]
<1>10. queue' = [queue EXCEPT ![s] = q]
  BY <1>1, <1>2, <1>3
<1>11. /\ q \in Seq(Tag \cup {"get"})
       /\ stray = {} => Waiting(q) = Waiting(queue[s]) + IF fits THEN 1 ELSE 0
       /\ stray = {} => \A i \in DOMAIN q : q[i] # "get"
  <2>1. t # "get" /\ t \in Tag \cup {"get"} /\ queue[s] \in Seq(Tag \cup {"get"})
    BY <1>2, <1>3, PipelineAssumption
  <2>2. Waiting(queue[s]) \in Int
    BY <2>1 DEF Waiting
  <2> HIDE DEF s, t, fits
  <2>3. q \in Seq(Tag \cup {"get"})
    BY <2>1
  <2>4. ASSUME stray = {}, fits
        PROVE  /\ Waiting(q) = Waiting(queue[s]) + 1
               /\ \A i \in DOMAIN q : q[i] # "get"
    BY <1>9, <2>1, <2>4, QueueAppend
  <2>5. ASSUME stray = {}, ~fits
        PROVE  /\ Waiting(q) = Waiting(queue[s]) + 0
               /\ \A i \in DOMAIN q : q[i] # "get"
    BY <1>9, <2>1, <2>2, <2>5 DEF Asked
  <2> HIDE DEF q
  <2> QED
    BY <2>3, <2>4, <2>5
<1> HIDE DEF q
<1>12. queue' \in [Shard -> Seq(Tag \cup {"get"})]
       /\ \A x \in Shard : queue'[x] = IF x = s THEN q ELSE queue[x]
  BY <1>2, <1>10, <1>11
<1>13. LostBy(s) \in Nat
  BY PartIsFinite DEF LostBy
<1>14. lost' \in Nat
  BY <1>1, <1>2, <1>13
<1>15. PipeTypeOK' /\ StreamInv' /\ ShardsInv' /\ AnswersShape'
  <2>1. ringSenders \subseteq {"collector", "engine"} \cup Recorder
    BY DEF PipeInv, PipeTypeOK
  <2>2. sent' >= sent
    BY <1>0, <1>2
  <2> QED
    BY <1>0, <1>2, <1>7, <1>12, <1>14, <2>1, <2>2, VuFrame
<1>16. VusInv'
  BY <1>0, <1>4, <1>5, <1>8 DEF PipeInv, VusInv
<1>17. AnswersInv'
  <2>1. ASSUME NEW x \in Shard PROVE LastAsked(x)' /\ AnswerStands(x)'
    <3>1. LastAsked(x) /\ AnswerStands(x)
      BY DEF PipeInv, AnswersInv
    <3>2. AnswerStands(x)'
      BY <1>0, <1>4, <3>1 DEF AnswerStands
    <3>3. LastAsked(x)'
      BY <1>0, <1>11, <1>12, <3>1 DEF LastAsked
    <3> QED
      BY <3>2, <3>3
  <2>2. main = "done" => \A x \in Shard : answers[x].given
    BY DEF PipeInv, AnswersInv
  <2> QED
    BY <1>0, <2>1, <2>2 DEF AnswersInv
<1>18. ASSUME stray = {} PROVE Accounted'
  <2> DEFINE f == Flow(shardOf, totals, queue, recorder)
             h == Flow(shardOf, totals, queue', recorder')
             gone == IF Len(queue[s]) >= QueueCap THEN PartFor(s) ELSE {}
  <2>1. f \in [Metric -> Int] /\ h \in [Metric -> Int]
    BY <1>2, <1>7, <1>12, FlowType
  <2>2. ASSUME NEW x \in Shard
        PROVE  Cardinality(Sending(recorder, x)) =
                 Cardinality(Sending(recorder', x)) + IF x = s THEN 1 ELSE 0
    <3>1. x \in Nat /\ x >= 1 /\ x <= NumShards
      BY PipeConstants DEF Shard
    <3>2. /\ s \in 1..x <=> s <= x
          /\ nx \in 1..x <=> s < x
      BY <1>1, <1>3, <3>1, PipeConstants DEF nx, Shard
    <3>3. v \in Sending(recorder, x) <=> s <= x
      BY <3>2 DEF Sending
    <3>4. Sending(recorder', x) = IF x = s THEN Sending(recorder, x) \ {v} ELSE Sending(recorder, x)
      <4>1. \A w \in Recorder : w # v =>
              (w \in Sending(recorder', x) <=> w \in Sending(recorder, x))
        BY <1>8 DEF Sending
      <4>2. v \in Sending(recorder', x) <=> s < x
        BY <1>8, <3>2 DEF Sending
      <4>3. Sending(recorder', x) \subseteq Recorder /\ Sending(recorder, x) \subseteq Recorder
        BY DEF Sending
      <4>4. x # s => (s < x <=> s <= x)
        BY <1>3, <3>1
      <4>5. x = s => ~(s < x)
        BY <1>3, <3>1
      <4> HIDE DEF s
      <4> QED
        BY <3>3, <4>1, <4>2, <4>3, <4>4, <4>5
    <3>5. IsFiniteSet(Sending(recorder, x)) /\ Cardinality(Sending(recorder, x)) \in Nat
      <4>1. Sending(recorder, x) \in SUBSET Recorder
        BY DEF Sending
      <4> QED
        BY <4>1, PipeConstants, FS_Subset, FS_CardinalityType
    <3>6. x = s => v \in Sending(recorder, x)
      BY <3>1, <3>3
    <3> HIDE DEF s
    <3>7. CASE x = s
      <4> DEFINE W == Sending(recorder, x)
      <4>1. Sending(recorder', x) = W \ {v} /\ v \in W /\ IsFiniteSet(W) /\ Cardinality(W) \in Nat
        BY <3>4, <3>5, <3>6, <3>7
      <4> HIDE DEF W
      <4>2. Cardinality(W \ {v}) = Cardinality(W) - 1
        BY <4>1, FS_RemoveElement
      <4>3. Cardinality(W) = Cardinality(Sending(recorder', x)) + 1
        BY <4>1, <4>2
      <4> QED
        BY <3>7, <4>3 DEF W
    <3>8. CASE x # s
      BY <3>4, <3>5, <3>8
    <3> QED
      BY <3>7, <3>8
  <2>3. gone \in SUBSET Metric /\ LostBy(s) = Cardinality(gone)
    BY PartIsFinite, FS_EmptySet DEF LostBy
  <2>4. ASSUME NEW m \in Metric PROVE f[m] = h[m] + IF m \in gone THEN 1 ELSE 0
    <3> DEFINE x == shardOf[m]
    <3>1. x \in Shard /\ (m \in PartFor(s) <=> x = s)
      BY <1>2, PartIsFinite
    <3>2. /\ totals[x][m] \in Nat /\ Waiting(queue[x]) \in Int
          /\ Cardinality(Sending(recorder, x)) \in Nat
          /\ f[m] = totals[x][m] + Waiting(queue[x]) + Cardinality(Sending(recorder, x))
      BY <1>2, FlowType
    <3>3. /\ Cardinality(Sending(recorder', x)) \in Nat /\ Waiting(queue'[x]) \in Int
          /\ h[m] = totals[x][m] + Waiting(queue'[x]) + Cardinality(Sending(recorder', x))
      BY <1>2, <1>7, <1>12, FlowType
    <3>4. Cardinality(Sending(recorder, x)) =
                 Cardinality(Sending(recorder', x)) + IF x = s THEN 1 ELSE 0
      BY <2>2, <3>1
    <3>5. Waiting(queue'[x]) = IF x = s THEN Waiting(queue[x]) + (IF fits THEN 1 ELSE 0)
                               ELSE Waiting(queue[x])
      BY <1>11, <1>12, <1>18, <3>1
    <3>6. x = s => (m \in gone <=> ~fits)
      <4>1. Len(queue[s]) \in Nat /\ QueueCap \in Nat
        BY <1>2, <1>3, PipeConstants
      <4> QED
        BY <3>1, <4>1
    <3>7. x # s => m \notin gone
      BY <3>1
    <3> HIDE DEF f, h, x, s, gone, fits
    <3> QED
      BY <3>2, <3>3, <3>4, <3>5, <3>6, <3>7
  <2>5. sent = lost + SumFunction(f)
    BY <1>18 DEF PipeInv, Accounted
  <2> HIDE DEF f, h, gone
  <2>6. SumFunction(f) = SumFunction(h) + Cardinality(gone)
    BY <2>1, <2>3, <2>4, PipeConstants, SumRaised
  <2>7. SumFunction(h) \in Int
    BY <2>1, PipeConstants, SumIsInt
  <2>8. sent' = lost' + SumFunction(h)
    BY <1>0, <1>1, <1>2, <1>13, <2>3, <2>5, <2>6, <2>7
  <2> QED
    BY <1>0, <2>8 DEF Accounted, h
<1>19. Accounted'
  BY <1>0, <1>18 DEF Accounted
<1> QED
  BY <1>15, <1>16, <1>17, <1>19 DEF PipeInv

\* A request is queued behind the last batch.
LEMMA AskKeeps ==
  ASSUME PipeInv, NEW s \in Shard, AskShard(s)
  PROVE  PipeInv'
<1>0. UNCHANGED <<shardOf, recorder, totals, headline, series, capped, lost, ringSenders, sent,
                  output, stray, answers>>
  BY DEF AskShard, aggVars
<1>1. /\ main = "ask" /\ main' \in {"ask", "collect"} /\ ~answers[s].given /\ ~Asked(queue[s])
      /\ queue' = [queue EXCEPT ![s] = Append(queue[s], "get")]
      /\ Asked(queue[s]) \in BOOLEAN
  BY DEF AskShard, Asked
<1>2. /\ recorder \in [Recorder -> [left : 0..Batches, next : 0..NumShards, tag : Tag]]
      /\ queue \in [Shard -> Seq(Tag \cup {"get"})]
      /\ totals \in [Shard -> [Metric -> Nat]] /\ shardOf \in [Metric -> Shard]
  BY DEF PipeInv, PipeTypeOK
<1> DEFINE q == Append(queue[s], "get")
<1>3. /\ q \in Seq(Tag \cup {"get"}) /\ Waiting(q) = Waiting(queue[s])
      /\ \A i \in DOMAIN q : q[i] = "get" => i = Len(q)
  <2>1. Waiting(queue[s]) \in Int /\ queue[s] \in Seq(Tag \cup {"get"})
    BY <1>2 DEF Waiting
  <2>2. "get" \in Tag \cup {"get"}
    OBVIOUS
  <2> HIDE DEF q
  <2>3. Waiting(q) = Waiting(queue[s]) + 0 /\ q \in Seq(Tag \cup {"get"})
    BY <1>1, <2>1, <2>2, QueueAppend DEF q
  <2>4. \A i \in DOMAIN q : q[i] = "get" => i = Len(q)
    BY <1>1, <2>1, <2>2, QueueAppend DEF q
  <2> QED
    BY <2>1, <2>3, <2>4
<1>4. queue' \in [Shard -> Seq(Tag \cup {"get"})]
       /\ \A x \in Shard : queue'[x] = IF x = s THEN q ELSE queue[x]
  <2> HIDE DEF q
  <2>1. queue' = [queue EXCEPT ![s] = q]
    BY <1>1 DEF q
  <2> QED
    BY <1>2, <1>3, <2>1
<1> HIDE DEF q
<1>5. PipeTypeOK'
  BY <1>0, <1>1, <1>4 DEF PipeInv, PipeTypeOK
<1>6. StreamInv' /\ VusInv'
  BY <1>0, <1>1 DEF PipeInv, StreamInv, VusInv
<1>7. ShardsInv' /\ AnswersShape'
  BY <1>0 DEF PipeInv, ShardsInv, ShardSums, Present, AnswersShape
<1>8. AnswersInv'
  <2>1. ASSUME NEW x \in Shard PROVE LastAsked(x)' /\ AnswerStands(x)'
    <3>1. LastAsked(x) /\ AnswerStands(x)
      BY DEF PipeInv, AnswersInv
    <3>2. AnswerStands(x)'
      BY <1>0, <1>1, <1>4, <3>1 DEF AnswerStands
    <3>3. LastAsked(x)'
      BY <1>0, <1>1, <1>3, <1>4, <3>1 DEF LastAsked
    <3> QED
      BY <3>2, <3>3
  <2> QED
    BY <1>0, <1>1, <2>1 DEF AnswersInv
<1>9. Accounted'
  <2>1. \A m \in Metric : Waiting(queue'[shardOf[m]]) = Waiting(queue[shardOf[m]])
    BY <1>2, <1>3, <1>4
  <2>2. Flow(shardOf, totals, queue, recorder) = Flow(shardOf, totals, queue', recorder)
    BY <2>1 DEF Flow
  <2> QED
    BY <1>0, <2>2 DEF PipeInv, Accounted
<1> QED
  BY <1>5, <1>6, <1>7, <1>8, <1>9 DEF PipeInv

\* What a shard stores of the samples `part` of a batch with tag t when it has
\* the series P: all of them if there is room, and otherwise x of the fresh ones.
Stores(part, t, P, fresh, x, stored) ==
  /\ part \in SUBSET Metric /\ t \in Tag /\ P \in SUBSET (Metric \X Tag)
  /\ Cardinality(P) <= MaxSeries
  /\ fresh \in SUBSET part /\ \A m \in part : m \notin fresh => <<m, t>> \in P
  /\ (\E y \in SUBSET fresh : Cardinality(y) = MaxSeries - Cardinality(P)) =>
       x \in SUBSET fresh /\ Cardinality(x) = MaxSeries - Cardinality(P)
  /\ stored = IF Cardinality(P) + Cardinality(fresh) <= MaxSeries THEN part
              ELSE (part \ fresh) \cup x

\* It stores some of the samples, in no more series than there is room for.
LEMMA StoredFits ==
  ASSUME NEW part, NEW t, NEW P, NEW fresh, NEW x, NEW stored,
         Stores(part, t, P, fresh, x, stored)
  PROVE  /\ stored \in SUBSET part
         /\ Cardinality(P \cup (stored \X {t})) <= MaxSeries
<1> USE DEF Stores
<1>0. /\ IsFiniteSet(part) /\ IsFiniteSet(P) /\ IsFiniteSet(fresh)
      /\ Cardinality(P) \in Nat /\ Cardinality(fresh) \in Nat /\ fresh \in SUBSET part
  BY PipeConstants, FS_Subset, FS_CardinalityType
<1>1. MaxSeries \in Nat
  BY PipeConstants
<1>2. PICK new \in SUBSET fresh :
        /\ stored = (part \ fresh) \cup new /\ Cardinality(P) + Cardinality(new) <= MaxSeries
  <2>1. CASE Cardinality(P) + Cardinality(fresh) <= MaxSeries
    <3>1. stored = (part \ fresh) \cup fresh
      BY <2>1, <1>0
    <3> QED
      BY <2>1, <3>1
  <2>2. CASE ~(Cardinality(P) + Cardinality(fresh) <= MaxSeries)
    <3> DEFINE n == MaxSeries - Cardinality(P)
    <3>1. n \in Nat /\ n <= Cardinality(fresh)
      BY <1>0, <1>1, <2>2
    <3>2. \E y \in SUBSET fresh : Cardinality(y) = n
      <4> HIDE DEF n
      <4> QED
        BY <1>0, <3>1, SubsetOfSize
    <3>3. stored = (part \ fresh) \cup x
      BY <2>2
    <3>4. x \in SUBSET fresh /\ Cardinality(x) = n
      BY <3>2
    <3>5. Cardinality(P) + Cardinality(x) <= MaxSeries
      BY <1>0, <1>1, <3>4
    <3> QED
      BY <3>3, <3>4, <3>5
  <2> QED
    BY <2>1, <2>2
<1>3. P \cup (stored \X {t}) = P \cup (new \X {t})
  <2>1. \A m \in part \ fresh : <<m, t>> \in P
    OBVIOUS
  <2>2. ASSUME NEW k \in stored \X {t} PROVE k \in P \cup (new \X {t})
    <3>1. k = <<k[1], t>> /\ k[1] \in stored
      OBVIOUS
    <3>2. CASE k[1] \in new
      BY <3>1, <3>2
    <3>3. CASE k[1] \in part \ fresh
      BY <2>1, <3>1, <3>3
    <3> QED
      BY <1>2, <3>1, <3>2, <3>3
  <2>3. ASSUME NEW k \in new \X {t} PROVE k \in stored \X {t}
    BY <1>2
  <2> QED
    BY <2>2, <2>3
<1>4. IsFiniteSet(new) /\ Cardinality(new) \in Nat
  BY <1>0, FS_Subset, FS_CardinalityType
<1>5. IsFiniteSet(new \X {t}) /\ Cardinality(new \X {t}) = Cardinality(new)
  <2>1. IsFiniteSet({t}) /\ Cardinality({t}) = 1
    BY FS_Singleton
  <2>2. IsFiniteSet(new \X {t}) /\ Cardinality(new \X {t}) = Cardinality(new) * 1
    BY <1>4, <2>1, FS_Product
  <2> QED
    BY <1>4, <2>2
<1>6. Cardinality(P \cup (new \X {t})) <= Cardinality(P) + Cardinality(new)
  <2> DEFINE Q == new \X {t}
  <2>1. IsFiniteSet(Q) /\ Cardinality(Q) = Cardinality(new)
    BY <1>5
  <2> HIDE DEF Q
  <2>2. Cardinality(P \cup Q) = Cardinality(P) + Cardinality(Q) - Cardinality(P \cap Q)
    BY <1>0, <2>1, FS_Union
  <2>3. Cardinality(P \cap Q) \in Nat
    BY <1>0, FS_Intersection, FS_CardinalityType
  <2>4. Cardinality(P \cup Q) <= Cardinality(P) + Cardinality(new)
    BY <1>0, <1>4, <2>1, <2>2, <2>3
  <2> QED
    BY <2>4 DEF Q
<1>7. Cardinality(P \cup (new \X {t})) \in Nat
  BY <1>0, <1>5, FS_Union, FS_CardinalityType
<1>8. stored \in SUBSET part
  BY <1>0, <1>2
<1>9. Cardinality(P \cup (stored \X {t})) <= MaxSeries
  <2> DEFINE c == Cardinality(P \cup (new \X {t}))
  <2>1. c \in Nat /\ c <= Cardinality(P) + Cardinality(new)
    BY <1>6, <1>7
  <2> HIDE DEF c
  <2>2. c <= MaxSeries
    BY <1>0, <1>1, <1>2, <1>4, <2>1
  <2> QED
    BY <1>3, <2>2 DEF c
<1> QED
  BY <1>8, <1>9

\* A function to natural numbers is one to integers.
LEMMA NatFunction ==
  ASSUME NEW S, NEW f \in [S -> Nat]
  PROVE  f \in [S -> Int]
OBVIOUS

\* A batch recorded: each sample of it in the totals and in the headline, and in
\* a series or counted.
LEMMA RecordKeeps ==
  ASSUME PipeTypeOK, ShardsInv, UNCHANGED shardOf, NEW s \in Shard, NEW t \in Tag, RecordBatch(s, t)
  PROVE  /\ totals' \in [Shard -> [Metric -> Nat]] /\ headline' \in [Shard -> [Metric -> Nat]]
         /\ series' \in [Shard -> [Metric \X Tag -> Nat]] /\ capped' \in [Shard -> Nat]
         /\ \A x \in Shard : x # s => totals'[x] = totals[x] /\ headline'[x] = headline[x]
                                      /\ capped'[x] = capped[x]
         /\ \A m \in Metric : totals'[s][m] = totals[s][m] + IF m \in PartFor(s) THEN 1 ELSE 0
         /\ ShardsInv'
<1>0. /\ totals \in [Shard -> [Metric -> Nat]] /\ headline \in [Shard -> [Metric -> Nat]]
      /\ series \in [Shard -> [Metric \X Tag -> Nat]] /\ capped \in [Shard -> Nat]
      /\ shardOf \in [Metric -> Shard]
  BY DEF PipeTypeOK
<1>a. series[s] \in [Metric \X Tag -> Int] /\ totals[s] \in [Metric -> Int]
  BY <1>0, NatFunction
<1> DEFINE part == PartFor(s)
           P == Present(s)
           fresh == {m \in part : <<m, t>> \notin P}
           room == Cardinality(P) + Cardinality(fresh) <= MaxSeries
           stored == IF room THEN part
                     ELSE (part \ fresh) \cup
                          CHOOSE x \in SUBSET fresh : Cardinality(x) = MaxSeries - Cardinality(P)
           tot == [m \in Metric |-> totals[s][m] + IF m \in part THEN 1 ELSE 0]
           ser == [k \in Metric \X Tag |-> series[s][k] + IF k[2] = t /\ k[1] \in stored THEN 1 ELSE 0]
           cap == capped[s] + Cardinality(part \ stored)
<1>1. /\ totals' = [totals EXCEPT ![s] = tot] /\ series' = [series EXCEPT ![s] = ser]
      /\ capped' = [capped EXCEPT ![s] = cap]
  BY <1>0 DEF RecordBatch
<1>2. headline' = [headline EXCEPT ![s] = [m \in Metric |-> headline[s][m] + IF m \in part THEN 1 ELSE 0]]
  BY <1>0 DEF RecordBatch, HeadlineOf
<1>3. ShardSums(s)
  BY DEF ShardsInv
<1>4. headline' = [headline EXCEPT ![s] = tot]
  BY <1>2, <1>3 DEF ShardSums
<1>5. /\ part \in SUBSET Metric /\ IsFiniteSet(part) /\ Cardinality(part) \in Nat
      /\ P \in SUBSET (Metric \X Tag) /\ Cardinality(P) <= MaxSeries
  BY <1>3, PartIsFinite DEF ShardSums, Present
<1>6. stored \in SUBSET part /\ Cardinality(P \cup (stored \X {t})) <= MaxSeries
  <2> DEFINE x == CHOOSE y \in SUBSET fresh : Cardinality(y) = MaxSeries - Cardinality(P)
  <2>1. fresh \in SUBSET part /\ \A m \in part : m \notin fresh => <<m, t>> \in P
    OBVIOUS
  <2>2. stored = IF Cardinality(P) + Cardinality(fresh) <= MaxSeries THEN part
                 ELSE (part \ fresh) \cup x
    OBVIOUS
  <2> HIDE DEF P, part, fresh, stored
  <2>3. (\E y \in SUBSET fresh : Cardinality(y) = MaxSeries - Cardinality(P)) =>
          x \in SUBSET fresh /\ Cardinality(x) = MaxSeries - Cardinality(P)
    OBVIOUS
  <2> HIDE DEF x
  <2>4. Stores(part, t, P, fresh, x, stored)
    BY <1>5, <2>1, <2>2, <2>3 DEF Stores
  <2> QED
    BY <2>4, StoredFits
<1> HIDE DEF stored
<1>7. /\ IsFiniteSet(stored) /\ Cardinality(stored) \in Nat
      /\ Cardinality(part \ stored) = Cardinality(part) - Cardinality(stored)
      /\ Cardinality(part \ stored) \in Nat
  <2>1. part \cap stored = stored
    BY <1>6
  <2> HIDE DEF part
  <2>2. IsFiniteSet(stored) /\ IsFiniteSet(part \ stored)
    BY <1>5, <1>6, FS_Subset
  <2>3. Cardinality(part \ stored) = Cardinality(part) - Cardinality(stored)
    BY <1>5, <2>1, FS_Difference
  <2> QED
    BY <2>2, <2>3, FS_CardinalityType
<1>8. tot \in [Metric -> Nat] /\ ser \in [Metric \X Tag -> Nat] /\ cap \in Nat
  <2>1. tot \in [Metric -> Nat]
    BY <1>0
  <2>2. ser \in [Metric \X Tag -> Nat]
    BY <1>0
  <2>3. cap \in Nat
    BY <1>0, <1>7
  <2> QED
    BY <2>1, <2>2, <2>3
<1>9. \A m \in Metric : tot[m] = totals[s][m] + IF m \in part THEN 1 ELSE 0
  OBVIOUS
<1>10. \A k \in Metric \X Tag : ser[k] = series[s][k] + IF k \in stored \X {t} THEN 1 ELSE 0
  <2>1. \A k \in Metric \X Tag : k \in stored \X {t} <=> k[2] = t /\ k[1] \in stored
    OBVIOUS
  <2> QED
    BY <2>1
<1> HIDE DEF tot, ser
<1>11. SumFunction(tot) = SumFunction(totals[s]) + Cardinality(part)
  <2>1. totals[s] \in [Metric -> Int] /\ tot \in [Metric -> Int]
    BY <1>0, <1>8
  <2> HIDE DEF part
  <2> QED
    BY <1>5, <1>9, <2>1, PipeConstants, SumRaised
<1>12. SumFunction(ser) = SumFunction(series[s]) + Cardinality(stored)
  <2>1. series[s] \in [Metric \X Tag -> Int] /\ ser \in [Metric \X Tag -> Int]
    BY <1>0, <1>8
  <2> DEFINE B == stored \X {t} K == Metric \X Tag
  <2>2. B \in SUBSET K
    BY <1>5, <1>6
  <2>3. Cardinality(B) = Cardinality(stored)
    <3>1. IsFiniteSet({t}) /\ Cardinality({t}) = 1
      BY FS_Singleton
    <3>2. Cardinality(B) = Cardinality(stored) * 1
      BY <1>7, <3>1, FS_Product
    <3> QED
      BY <1>7, <3>2
  <2>4. \A k \in K : ser[k] = series[s][k] + IF k \in B THEN 1 ELSE 0
    BY <1>10
  <2>5. IsFiniteSet(K)
    BY PipeConstants
  <2> DEFINE f == series[s]
  <2> HIDE DEF B, K, f
  <2>6. SumFunction(ser) = SumFunction(f) + Cardinality(B)
    BY <2>1, <2>2, <2>4, <2>5, SumRaised DEF f, K
  <2> QED
    BY <2>3, <2>6 DEF f
<1>13. /\ totals' \in [Shard -> [Metric -> Nat]] /\ headline' \in [Shard -> [Metric -> Nat]]
       /\ series' \in [Shard -> [Metric \X Tag -> Nat]] /\ capped' \in [Shard -> Nat]
  <2> HIDE DEF cap
  <2> QED
    BY <1>0, <1>1, <1>4, <1>8
<1>14. /\ totals'[s] = tot /\ headline'[s] = tot /\ series'[s] = ser /\ capped'[s] = cap
       /\ \A x \in Shard : x # s => totals'[x] = totals[x] /\ headline'[x] = headline[x]
                                    /\ series'[x] = series[x] /\ capped'[x] = capped[x]
  <2> HIDE DEF cap
  <2> QED
    BY <1>0, <1>1, <1>4, <1>8
<1>15. ShardSums(s)'
  <2>1. Present(s)' = P \cup (stored \X {t})
    <3>1. Present(s)' = {k \in Metric \X Tag : ser[k] > 0}
      BY <1>14 DEF Present
    <3>2. P = {k \in Metric \X Tag : series[s][k] > 0}
      BY DEF Present
    <3>3. \A k \in Metric \X Tag : series[s][k] \in Nat
      BY <1>0
    <3>4. stored \X {t} \subseteq Metric \X Tag
      BY <1>5, <1>6
    <3> HIDE DEF P
    <3>5. \A k \in Metric \X Tag : ser[k] > 0 <=> series[s][k] > 0 \/ k \in stored \X {t}
      BY <1>10, <3>3
    <3> QED
      BY <3>1, <3>2, <3>4, <3>5
  <2>2. Cardinality(Present(s)') <= MaxSeries
    BY <1>6, <2>1
  <2>3. \A m \in Metric : shardOf[m] # s => tot[m] = 0
    BY <1>3, <1>9, PartIsFinite DEF ShardSums
  <2>4. SumFunction(ser) + cap = SumFunction(tot)
    <3>1. SumFunction(series[s]) \in Int /\ SumFunction(totals[s]) \in Int
      <4> DEFINE f == series[s] g == totals[s] K == Metric \X Tag
      <4>1. f \in [K -> Int]
        BY <1>a
      <4>2. g \in [Metric -> Int]
        BY <1>a
      <4>3. IsFiniteSet(K) /\ IsFiniteSet(Metric)
        BY PipeConstants
      <4> HIDE DEF f, g, K
      <4>4. SumFunction(f) \in Int /\ SumFunction(g) \in Int
        BY <4>1, <4>2, <4>3, SumIsInt
      <4> QED
        BY <4>4 DEF f, g
    <3>2. SumFunction(series[s]) + capped[s] = SumFunction(totals[s]) /\ capped[s] \in Nat
      BY <1>0, <1>3 DEF ShardSums
    <3> DEFINE a == SumFunction(series[s]) b == SumFunction(totals[s]) c == Cardinality(part \ stored)
               d == Cardinality(part) e == Cardinality(stored)
    <3>3. c = d - e /\ c \in Nat /\ d \in Nat /\ e \in Nat
      BY <1>5, <1>7
    <3> HIDE DEF a, b, c, d, e, part
    <3>4. (a + e) + (capped[s] + c) = b + d
      BY <3>1, <3>2, <3>3 DEF a, b
    <3> QED
      BY <1>11, <1>12, <3>4 DEF a, b, c, d, e, cap
  <2> QED
    BY <1>14, <2>2, <2>3, <2>4 DEF ShardSums
<1>16. ASSUME NEW x \in Shard, x # s PROVE ShardSums(x)'
  <2>1. Present(x)' = Present(x)
    BY <1>14, <1>16 DEF Present
  <2>2. ShardSums(x)
    BY DEF ShardsInv
  <2> QED
    BY <1>14, <1>16, <2>1, <2>2 DEF ShardSums
<1>17. ShardsInv'
  BY <1>15, <1>16 DEF ShardsInv
<1> QED
  BY <1>9, <1>13, <1>14, <1>17

\* What the receiver leaves of a queue.
LEMMA QueueTail ==
  ASSUME NEW q \in Seq(Tag \cup {"get"}), q # <<>>,
         \A i \in DOMAIN q : q[i] = "get" => i = Len(q)
  PROVE  /\ Head(q) \in Tag \cup {"get"} /\ Tail(q) \in Seq(Tag \cup {"get"})
         /\ Waiting(q) \in Int
         /\ Head(q) = "get" => Tail(q) = <<>> /\ Waiting(Tail(q)) = Waiting(q)
         /\ Head(q) # "get" => Waiting(Tail(q)) = Waiting(q) - 1
         /\ \A i \in DOMAIN Tail(q) : Tail(q)[i] = "get" => i = Len(Tail(q)) /\ Asked(q)
<1>1. /\ Head(q) \in Tag \cup {"get"} /\ Tail(q) \in Seq(Tag \cup {"get"}) /\ Head(q) = q[1]
      /\ Len(q) \in Nat \ {0} /\ Len(Tail(q)) = Len(q) - 1
      /\ DOMAIN q = 1..Len(q) /\ DOMAIN Tail(q) = 1..(Len(q) - 1)
  OBVIOUS
<1>2. \A i \in 1..(Len(q) - 1) : Tail(q)[i] = q[i + 1] /\ i + 1 \in 1..Len(q)
  BY <1>1
<1>3. \A i \in DOMAIN Tail(q) : Tail(q)[i] = "get" => i = Len(Tail(q)) /\ Asked(q)
  BY <1>1, <1>2 DEF Asked
<1>4. CASE Head(q) = "get"
  <2>1. Len(q) = 1 /\ 1 \in DOMAIN q
    BY <1>1, <1>4
  <2>2. Tail(q) = <<>> /\ Len(Tail(q)) = 0 /\ DOMAIN Tail(q) = {}
    BY <1>1, <2>1
  <2>3. Asked(q) /\ ~Asked(Tail(q))
    BY <1>1, <1>4, <2>1, <2>2 DEF Asked
  <2>4. Waiting(q) = 0 /\ Waiting(Tail(q)) = 0
    BY <2>1, <2>2, <2>3 DEF Waiting
  <2> QED
    BY <1>1, <1>3, <1>4, <2>2, <2>4
<1>5. CASE Head(q) # "get"
  <2>1. ASSUME NEW i \in DOMAIN q, q[i] = "get" PROVE Asked(Tail(q))
    <3>1. i \in 1..Len(q) /\ i # 1
      BY <1>1, <1>5, <2>1
    <3>2. i - 1 \in 1..(Len(q) - 1) /\ (i - 1) + 1 = i
      BY <1>1, <3>1
    <3>3. Tail(q)[i - 1] = "get" /\ i - 1 \in DOMAIN Tail(q)
      BY <1>1, <1>2, <2>1, <3>2
    <3> QED
      BY <3>3 DEF Asked
  <2>2. Asked(q) <=> Asked(Tail(q))
    BY <1>3, <2>1 DEF Asked
  <2>3. Waiting(q) \in Int /\ Waiting(Tail(q)) = Waiting(q) - 1
    BY <1>1, <2>2 DEF Waiting
  <2> QED
    BY <1>1, <1>3, <1>5, <2>3
<1> QED
  BY <1>4, <1>5

\* A shard takes the next message off its queue.
LEMMA AggregateKeeps ==
  ASSUME PipeInv, NEW s \in Shard, Aggregate(s)
  PROVE  PipeInv'
<1>0. UNCHANGED <<shardOf, recorder, lost, ringSenders, sent, output, stray, main>>
  BY DEF Aggregate
<1>1. /\ recorder \in [Recorder -> [left : 0..Batches, next : 0..NumShards, tag : Tag]]
      /\ queue \in [Shard -> Seq(Tag \cup {"get"})]
      /\ totals \in [Shard -> [Metric -> Nat]] /\ shardOf \in [Metric -> Shard]
      /\ answers \in [Shard -> Answer]
  BY DEF PipeInv, PipeTypeOK
<1> DEFINE q == queue[s]
<1>2. q \in Seq(Tag \cup {"get"}) /\ q # <<>> /\ queue' = [queue EXCEPT ![s] = Tail(q)]
  BY <1>1 DEF Aggregate
<1>3. ASSUME NEW x \in Shard PROVE LastAsked(x) /\ AnswerStands(x)
  BY DEF PipeInv, AnswersInv
<1>4. stray = {} => /\ \A i \in DOMAIN q : q[i] = "get" => i = Len(q)
                    /\ Asked(q) => main \in {"ask", "collect"}
  BY <1>3 DEF LastAsked, Asked
<1>5. stray = {} => ~answers[s].given
  BY <1>2, <1>3 DEF AnswerStands
<1>6. main = "done" => \A x \in Shard : answers[x].given
  BY DEF PipeInv, AnswersInv
<1> HIDE DEF q
<1>7. /\ Head(q) \in Tag \cup {"get"} /\ Tail(q) \in Seq(Tag \cup {"get"})
      /\ stray = {} =>
           /\ Waiting(q) \in Int
           /\ Head(q) = "get" => Tail(q) = <<>> /\ Waiting(Tail(q)) = Waiting(q) /\ Asked(q)
           /\ Head(q) # "get" => Waiting(Tail(q)) = Waiting(q) - 1
           /\ \A i \in DOMAIN Tail(q) : Tail(q)[i] = "get" => i = Len(Tail(q)) /\ Asked(q)
  <2>1. Head(q) = q[1] /\ 1 \in DOMAIN q
    BY <1>2
  <2>2. Head(q) = "get" => Asked(q)
    BY <2>1 DEF Asked
  <2>3. Head(q) \in Tag \cup {"get"} /\ Tail(q) \in Seq(Tag \cup {"get"})
    BY <1>2
  <2>4. ASSUME stray = {}
        PROVE  /\ Waiting(q) \in Int
               /\ Head(q) = "get" => Tail(q) = <<>> /\ Waiting(Tail(q)) = Waiting(q) /\ Asked(q)
               /\ Head(q) # "get" => Waiting(Tail(q)) = Waiting(q) - 1
               /\ \A i \in DOMAIN Tail(q) : Tail(q)[i] = "get" => i = Len(Tail(q)) /\ Asked(q)
    BY <1>2, <1>4, <2>2, <2>4, QueueTail
  <2> QED
    BY <2>3, <2>4
<1>8. queue' \in [Shard -> Seq(Tag \cup {"get"})]
      /\ \A x \in Shard : queue'[x] = IF x = s THEN Tail(q) ELSE queue[x]
  BY <1>1, <1>2, <1>7
<1>9. ASSUME NEW x \in Shard PROVE LastAsked(x)'
  <2>1. CASE x = s
    BY <1>0, <1>4, <1>7, <1>8, <2>1 DEF LastAsked
  <2>2. CASE x # s
    BY <1>0, <1>3, <1>8, <2>2 DEF LastAsked
  <2> QED
    BY <2>1, <2>2
<1>10. StreamInv' /\ VusInv'
  BY <1>0 DEF PipeInv, StreamInv, VusInv
<1>11. CASE Head(q) = "get"
  <2>1. UNCHANGED <<totals, headline, series, capped>>
        /\ answers' = [answers EXCEPT ![s] =
             [totals |-> totals[s], headline |-> headline[s], capped |-> capped[s], given |-> TRUE]]
    BY <1>11 DEF Aggregate, aggVars, q
  <2>2. [totals |-> totals[s], headline |-> headline[s], capped |-> capped[s], given |-> TRUE]
          \in Answer
    BY DEF PipeInv, PipeTypeOK, Answer
  <2>3. answers' \in [Shard -> Answer]
        /\ answers'[s] = [totals |-> totals[s], headline |-> headline[s], capped |-> capped[s],
                          given |-> TRUE]
        /\ \A x \in Shard : x # s => answers'[x] = answers[x]
    BY <1>1, <2>1, <2>2
  <2>4. PipeTypeOK'
    BY <1>0, <1>8, <2>1, <2>3 DEF PipeInv, PipeTypeOK
  <2>5. ASSUME NEW x \in Shard PROVE AnswerStands(x)'
    <3>1. CASE x = s
      <4>1. stray = {} => queue'[s] = <<>> /\ main' \in {"ask", "collect", "done"}
        BY <1>0, <1>4, <1>7, <1>8, <1>11
      <4> QED
        BY <1>0, <2>1, <2>3, <3>1, <4>1 DEF AnswerStands
    <3>2. CASE x # s
      BY <1>0, <1>3, <1>8, <2>1, <2>3, <3>2 DEF AnswerStands
    <3> QED
      BY <3>1, <3>2
  <2>6. AnswersInv'
    <3>1. main' = "done" => \A x \in Shard : answers'[x].given
      BY <1>0, <1>6, <2>3
    <3> QED
      BY <1>9, <2>5, <3>1 DEF AnswersInv
  <2>7. ShardsInv'
    BY <1>0, <2>1 DEF PipeInv, ShardsInv, ShardSums, Present
  <2>shape. AnswersShape'
    <3>1. headline[s] = totals[s] /\ \A m \in Metric : shardOf[m] # s => totals[s][m] = 0
      BY DEF PipeInv, ShardsInv, ShardSums
    <3> QED
      BY <1>0, <2>3, <3>1 DEF PipeInv, AnswersShape
  <2>8. ASSUME stray = {} PROVE Accounted'
    <3>1. \A m \in Metric : Waiting(queue'[shardOf[m]]) = Waiting(queue[shardOf[m]])
      BY <1>1, <1>7, <1>8, <1>11, <2>8 DEF q
    <3>2. Flow(shardOf, totals, queue, recorder) = Flow(shardOf, totals, queue', recorder)
      BY <3>1 DEF Flow
    <3> QED
      BY <1>0, <2>1, <3>2 DEF PipeInv, Accounted
  <2>9. Accounted'
    BY <1>0, <2>8 DEF Accounted
  <2> QED
    BY <1>10, <2>4, <2>6, <2>7, <2>shape, <2>9 DEF PipeInv
<1>12. CASE Head(q) # "get"
  <2>0. Head(q) \in Tag /\ RecordBatch(s, Head(q)) /\ UNCHANGED answers
    BY <1>7, <1>12 DEF Aggregate, q
  <2>1. /\ totals' \in [Shard -> [Metric -> Nat]] /\ headline' \in [Shard -> [Metric -> Nat]]
        /\ series' \in [Shard -> [Metric \X Tag -> Nat]] /\ capped' \in [Shard -> Nat]
        /\ \A x \in Shard : x # s => totals'[x] = totals[x] /\ headline'[x] = headline[x]
                                     /\ capped'[x] = capped[x]
        /\ \A m \in Metric : totals'[s][m] = totals[s][m] + IF m \in PartFor(s) THEN 1 ELSE 0
        /\ ShardsInv'
    BY <1>0, <2>0, RecordKeeps DEF PipeInv
  <2>2. PipeTypeOK'
    BY <1>0, <1>8, <2>0, <2>1 DEF PipeInv, PipeTypeOK
  <2>3. ASSUME NEW x \in Shard PROVE AnswerStands(x)'
    <3>1. CASE x = s
      BY <1>0, <1>5, <2>0, <3>1 DEF AnswerStands
    <3>2. CASE x # s
      BY <1>0, <1>3, <1>8, <2>0, <2>1, <3>2 DEF AnswerStands
    <3> QED
      BY <3>1, <3>2
  <2>4. AnswersInv'
    BY <1>0, <1>6, <1>9, <2>0, <2>3 DEF AnswersInv
  <2>shape. AnswersShape'
    BY <1>0, <2>0 DEF PipeInv, AnswersShape
  <2>5. ASSUME stray = {} PROVE Accounted'
    <3>1. ASSUME NEW m \in Metric
          PROVE  totals[shardOf[m]][m] + Waiting(queue[shardOf[m]])
                   = totals'[shardOf[m]][m] + Waiting(queue'[shardOf[m]])
      <4>1. shardOf[m] \in Shard /\ (m \in PartFor(s) <=> shardOf[m] = s)
        BY <1>1, PartIsFinite
      <4>2. CASE shardOf[m] = s
        <5>1. totals'[s][m] = totals[s][m] + 1 /\ totals[s][m] \in Nat
          BY <1>1, <2>1, <4>1, <4>2
        <5>2. Waiting(queue'[s]) = Waiting(queue[s]) - 1 /\ Waiting(queue[s]) \in Int
          BY <1>7, <1>8, <1>12, <2>5 DEF q
        <5> QED
          BY <4>2, <5>1, <5>2
      <4>3. CASE shardOf[m] # s
        BY <1>8, <2>1, <4>1, <4>3
      <4> QED
        BY <4>2, <4>3
    <3>2. Flow(shardOf, totals, queue, recorder) = Flow(shardOf, totals', queue', recorder)
      BY <3>1 DEF Flow
    <3> QED
      BY <1>0, <3>2 DEF PipeInv, Accounted
  <2>6. Accounted'
    BY <1>0, <2>5 DEF Accounted
  <2> QED
    BY <1>10, <2>1, <2>2, <2>4, <2>shape, <2>6 DEF PipeInv
<1> QED
  BY <1>11, <1>12

\* The invariant at the start.
LEMMA PipeInitially == PipeInit => PipeInv
<1> SUFFICES ASSUME PipeInit PROVE PipeInv
  OBVIOUS
<1>1. PipeTypeOK
  <2>1. (CHOOSE t \in Tag : TRUE) \in Tag
    BY PipelineAssumption
  <2>2. recorder \in [Recorder -> [left : 0..Batches, next : 0..NumShards, tag : Tag]]
    BY <2>1, PipeConstants DEF PipeInit
  <2>3. NoAnswer \in Answer
    BY DEF NoAnswer, Answer
  <2>4. answers \in [Shard -> Answer]
    BY <2>3 DEF PipeInit
  <2> QED
    BY <2>2, <2>4 DEF PipeInit, PipeTypeOK
<1>2. StreamInv
  BY DEF PipeInit, StreamInv
<1>3. VusInv
  BY DEF PipeInit, VusInv
<1>4. AnswersInv
  <2>1. \A s \in Shard : ~answers[s].given /\ DOMAIN queue[s] = {}
    BY DEF PipeInit, NoAnswer
  <2> QED
    BY <2>1 DEF PipeInit, AnswersInv, LastAsked, AnswerStands
<1>7. AnswersShape
  BY DEF PipeInit, AnswersShape, NoAnswer
<1>5. ShardsInv
  <2> SUFFICES ASSUME NEW s \in Shard PROVE ShardSums(s)
    BY DEF ShardsInv
  <2> DEFINE zm == [m \in Metric |-> 0] zk == [k \in Metric \X Tag |-> 0]
  <2>1. totals[s] = zm /\ headline[s] = zm /\ series[s] = zk /\ capped[s] = 0
    BY DEF PipeInit
  <2>2. zm \in [Metric -> Int] /\ \A m \in Metric : zm[m] = IF m \in {} THEN 1 ELSE 0
    OBVIOUS
  <2>3. zk \in [Metric \X Tag -> Int] /\ \A k \in Metric \X Tag : zk[k] = IF k \in {} THEN 1 ELSE 0
    OBVIOUS
  <2>4. Present(s) = {} /\ \A m \in Metric : totals[s][m] = 0
    BY <2>1 DEF Present
  <2> HIDE DEF zm, zk
  <2>5. SumFunction(zm) = Cardinality({})
    BY <2>2, PipeConstants, SumOfOnes
  <2>6. SumFunction(zk) = Cardinality({})
    <3> DEFINE K == Metric \X Tag
    <3>1. IsFiniteSet(K) /\ zk \in [K -> Int] /\ \A k \in K : zk[k] = IF k \in {} THEN 1 ELSE 0
      BY <2>3, PipeConstants
    <3> HIDE DEF K
    <3> QED
      BY <3>1, SumOfOnes
  <2> QED
    BY <2>1, <2>4, <2>5, <2>6, FS_EmptySet, PipeConstants DEF ShardSums
<1>6. Accounted
  <2> DEFINE f == Flow(shardOf, totals, queue, recorder)
  <2>1. f \in [Metric -> Int]
    BY <1>1, FlowType DEF PipeTypeOK
  <2>2. ASSUME NEW m \in Metric PROVE f[m] = IF m \in {} THEN 1 ELSE 0
    <3>1. shardOf[m] \in Shard
      BY DEF PipeInit
    <3>2. totals[shardOf[m]][m] = 0 /\ queue[shardOf[m]] = <<>>
      BY <3>1 DEF PipeInit
    <3>3. Waiting(queue[shardOf[m]]) = 0
      BY <3>2 DEF Waiting, Asked
    <3>4. Sending(recorder, shardOf[m]) = {}
      BY DEF PipeInit, Sending
    <3>5. f[m] = totals[shardOf[m]][m] + Waiting(queue[shardOf[m]])
                 + Cardinality(Sending(recorder, shardOf[m]))
      BY DEF Flow
    <3>6. Cardinality(Sending(recorder, shardOf[m])) = 0
      BY <3>4, FS_EmptySet
    <3> HIDE DEF f
    <3> QED
      BY <3>2, <3>3, <3>5, <3>6
  <2> HIDE DEF f
  <2>3. SumFunction(f) = Cardinality({})
    BY <2>1, <2>2, PipeConstants, SumOfOnes
  <2>4. sent = 0 /\ lost = 0
    BY DEF PipeInit
  <2> QED
    BY <2>3, <2>4, FS_EmptySet DEF Accounted, f
<1> QED
  BY <1>1, <1>2, <1>3, <1>4, <1>5, <1>6, <1>7 DEF PipeInv

\* The invariant is inductive.
LEMMA PipeInductive == PipeInv /\ [PipeNext]_pipeVars => PipeInv'
<1> SUFFICES ASSUME PipeInv, [PipeNext]_pipeVars PROVE PipeInv'
  OBVIOUS
<1>1. CASE UNCHANGED pipeVars
  <2>1. UNCHANGED <<shardOf, recorder, queue, totals, headline, series, capped, lost, ringSenders,
              sent, output, stray, main, answers>>
    BY <1>1 DEF pipeVars, aggVars
  <2>2. PipeTypeOK' /\ StreamInv' /\ VusInv'
    BY <2>1 DEF PipeInv, PipeTypeOK, StreamInv, VusInv
  <2>3. AnswersInv'
    BY <2>1 DEF PipeInv, AnswersInv, LastAsked, AnswerStands
  <2>4. ShardsInv' /\ AnswersShape' /\ Accounted'
    BY <2>1 DEF PipeInv, ShardsInv, ShardSums, Present, AnswersShape, Accounted
  <2> QED
    BY <2>2, <2>3, <2>4 DEF PipeInv
<1>2. ASSUME NEW v \in Recorder, CloneSink(v) \/ Forward(v) \/ TrySend(v) \/ Stop(v)
      PROVE  PipeInv'
  BY <1>2, CloneKeeps, ForwardKeeps, TrySendKeeps, StopKeeps
<1>3. ASSUME NEW s \in Shard, Aggregate(s) PROVE PipeInv'
  BY <1>3, AggregateKeeps
<1>4. CASE Receive \/ FlushTick \/ CloseOutput \/ OutputFails
  BY <1>4, OutputKeeps
<1>5. CASE MainStep
  BY <1>5, MainKeeps, AskKeeps DEF MainStep
<1> QED
  BY <1>1, <1>2, <1>3, <1>4, <1>5 DEF PipeNext

\* An output that did not fail has given every sample of the ring to its sink, or
\* counted it as lost, by the time the results are read, whichever VUs still
\* record.
THEOREM StreamIsAccounted == PipeSpec => []StreamAccounted
<1>1. PipeInv => StreamAccounted
  <2> SUFFICES ASSUME PipeInv, main \in {"ask", "collect", "done"}, ~output.failed
               PROVE  output.emitted + output.lagged = sent /\ output.batch = 0
    BY DEF StreamAccounted
  <2>1. output \in [pos : Nat, batch : Nat, emitted : Nat, lagged : Nat, open : BOOLEAN, failed : BOOLEAN]
    BY DEF PipeInv, PipeTypeOK
  <2>2. /\ output.pos = output.emitted + output.batch + output.lagged
        /\ output.pos = sent /\ output.batch = 0
    BY DEF PipeInv, StreamInv
  <2> QED
    BY <2>1, <2>2
<1> QED
  BY <1>1, PipeInitially, PipeInductive, PTL DEF PipeSpec

\* The results of a run are whole: the headline of a metric covers what its total
\* counts, in any case; if no VU strays, what is missing was counted as dropped,
\* and a run that is not marked unverified has every sample in its totals, its
\* series and the stream of an output that did not fail.
THEOREM ResultsStayWhole == PipeSpec => []ResultsAreWhole
<1>1. PipeInv => ResultsAreWhole
  <2> SUFFICES ASSUME PipeInv, main = "done" PROVE ResultsAreWhole
    BY DEF ResultsAreWhole
  <2>0. /\ totals \in [Shard -> [Metric -> Nat]] /\ shardOf \in [Metric -> Shard]
        /\ capped \in [Shard -> Nat] /\ series \in [Shard -> [Metric \X Tag -> Nat]]
        /\ queue \in [Shard -> Seq(Tag \cup {"get"})]
        /\ recorder \in [Recorder -> [left : 0..Batches, next : 0..NumShards, tag : Tag]]
        /\ lost \in Nat /\ sent \in Nat
        /\ output \in [pos : Nat, batch : Nat, emitted : Nat, lagged : Nat, open : BOOLEAN, failed : BOOLEAN]
    BY DEF PipeInv, PipeTypeOK
  <2>1. ASSUME NEW m \in Metric PROVE MergedHeadline(m) = MergedTotal(m)
    <3> DEFINE f == [s \in Shard |-> answers[s].totals[m]]
               H == {answers[s].headline[m] : s \in Shard}
               o == answers[shardOf[m]].totals[m]
    <3>1. f \in [Shard -> Int] /\ \A s \in Shard : f[s] \in Nat
      BY DEF PipeInv, PipeTypeOK, Answer
    <3>2. shardOf[m] \in Shard /\ \A s \in Shard : s # shardOf[m] => f[s] = 0
      BY <2>0 DEF PipeInv, AnswersShape
    <3>3. f[shardOf[m]] = o
      BY <3>2
    <3>4. H = {f[s] : s \in Shard}
      BY DEF PipeInv, AnswersShape
    <3> HIDE DEF f, H, o
    <3>5. SumFunction(f) = o
      BY <3>1, <3>2, <3>3, PipeConstants, SumOfOne
    <3>6. \A y \in H : y \in Nat /\ (y = o \/ y = 0)
      BY <3>1, <3>2, <3>3, <3>4
    <3>7. o \in H /\ o \in Nat
      BY <3>1, <3>2, <3>3, <3>4
    <3>8. \A x \in H : (\A y \in H : x >= y) => x = o
      BY <3>6, <3>7
    <3>9. \A y \in H : o >= y
      BY <3>6, <3>7
    <3>10. Max(H) = o
      BY <3>7, <3>8, <3>9 DEF Max
    <3> QED
      BY <3>5, <3>10 DEF MergedHeadline, MergedTotal, H, f
  <2> SUFFICES ASSUME stray = {}
               PROVE  /\ SumFunction([m \in Metric |-> MergedTotal(m)]) + lost = sent
                      /\ ~Unverified =>
                           /\ SumFunction([s \in Shard |-> SumFunction(series[s])]) = sent
                           /\ ~output.failed => output.emitted = sent
    BY <2>1 DEF ResultsAreWhole
  <2>3. \A s \in Shard : /\ answers[s].totals = totals[s]
                         /\ answers[s].capped = capped[s] /\ queue[s] = <<>>
    BY DEF PipeInv, AnswersInv, AnswerStands
  <2>2. \A s \in Shard, m \in Metric : shardOf[m] # s => totals[s][m] = 0
    BY DEF PipeInv, ShardsInv, ShardSums
  <2> DEFINE own == [m \in Metric |-> totals[shardOf[m]][m]]
  <2>5. own \in [Metric -> Nat]
    BY <2>0
  <2>4. ASSUME NEW m \in Metric
        PROVE  MergedTotal(m) = own[m] /\ SumFunction([s \in Shard |-> totals[s][m]]) = own[m]
    <3> DEFINE f == [s \in Shard |-> totals[s][m]]
    <3>1. f \in [Shard -> Int] /\ \A s \in Shard : s # shardOf[m] => f[s] = 0
      BY <2>0, <2>2
    <3>2. f[shardOf[m]] = own[m] /\ shardOf[m] \in Shard
      BY <2>0
    <3>3. [s \in Shard |-> answers[s].totals[m]] = f
      BY <2>3
    <3> HIDE DEF f, own
    <3>4. SumFunction(f) = own[m]
      BY <3>1, <3>2, PipeConstants, SumOfOne
    <3> QED
      BY <3>3, <3>4 DEF MergedTotal, f
  <2>6. Flow(shardOf, totals, queue, recorder) = own
    <3>1. \A v \in Recorder : recorder[v].next = 0
      <4>1. \A v \in Recorder : recorder[v].left = 0 /\ recorder[v].next \in Nat
        BY <2>0, PipeConstants DEF PipeInv, VusInv
      <4> QED
        BY <4>1 DEF PipeInv, VusInv
    <3>2. ASSUME NEW m \in Metric
          PROVE  Waiting(queue[shardOf[m]]) = 0 /\ Cardinality(Sending(recorder, shardOf[m])) = 0
      <4>1. queue[shardOf[m]] = <<>>
        BY <2>0, <2>3
      <4>2. Waiting(queue[shardOf[m]]) = 0
        BY <4>1 DEF Waiting, Asked
      <4>3. Sending(recorder, shardOf[m]) = {}
        BY <3>1 DEF Sending
      <4> QED
        BY <4>2, <4>3, FS_EmptySet
    <3>3. \A m \in Metric : totals[shardOf[m]][m] + 0 + 0 = totals[shardOf[m]][m]
      BY <2>0
    <3> QED
      BY <3>2, <3>3 DEF Flow
  <2>7. SumFunction(own) + lost = sent /\ SumFunction(own) \in Nat
    <3>1. sent = lost + SumFunction(own)
      BY <2>6 DEF PipeInv, Accounted
    <3> HIDE DEF own
    <3>2. SumFunction(own) \in Nat
      BY <2>5, PipeConstants, SumOfNats
    <3> QED
      BY <2>0, <3>1, <3>2
  <2>8. SumFunction([m \in Metric |-> MergedTotal(m)]) + lost = sent
    <3>1. [m \in Metric |-> MergedTotal(m)] = own
      <4>1. \A m \in Metric : MergedTotal(m) = own[m]
        BY <2>4
      <4>2. own = [m \in Metric |-> own[m]]
        OBVIOUS
      <4> HIDE DEF own
      <4> QED
        BY <4>1, <4>2
    <3> QED
      BY <2>7, <3>1
  <2>9. ASSUME ~Unverified
        PROVE  /\ SumFunction([s \in Shard |-> SumFunction(series[s])]) = sent
               /\ ~output.failed => output.emitted = sent
    <3>1. /\ output.pos = output.emitted + output.batch + output.lagged
          /\ ~output.failed => output.pos = sent /\ output.batch = 0
      BY DEF PipeInv, StreamInv
    <3>2. ~(MergedCapped > 0) /\ output.lagged = 0 /\ lost = 0
      BY <2>0, <2>9 DEF Unverified
    <3>3. MergedCapped = SumFunction(capped)
      <4>1. [s \in Shard |-> answers[s].capped] = capped
        BY <2>0, <2>3
      <4> QED
        BY <4>1 DEF MergedCapped
    <3>4. \A s \in Shard : capped[s] = 0
      <4>1. SumFunction(capped) \in Nat /\ \A s \in Shard : capped[s] <= SumFunction(capped)
        BY <2>0, PipeConstants, SumOfNats
      <4>2. SumFunction(capped) = 0
        BY <3>2, <3>3, <4>1
      <4>3. \A s \in Shard : capped[s] \in Nat
        BY <2>0
      <4> QED
        BY <4>1, <4>2, <4>3
    <3> DEFINE rows == [s \in Shard |-> SumFunction(totals[s])]
    <3>5. ASSUME NEW s \in Shard
          PROVE  SumFunction(series[s]) = SumFunction(totals[s]) /\ SumFunction(totals[s]) \in Int
      <4>1. SumFunction(series[s]) + capped[s] = SumFunction(totals[s])
        BY DEF PipeInv, ShardsInv, ShardSums
      <4>2. SumFunction(series[s]) \in Int
        <5> DEFINE K == Metric \X Tag f == series[s]
        <5>1. f \in [K -> Nat] /\ IsFiniteSet(K)
          BY <2>0, PipeConstants
        <5> HIDE DEF K, f
        <5>2. SumFunction(f) \in Nat
          BY <5>1, SumOfNats
        <5> QED
          BY <5>2 DEF f
      <4> QED
        BY <3>4, <4>1, <4>2
    <3>6. [s \in Shard |-> SumFunction(series[s])] = rows
      BY <3>5
    <3>7. rows \in [Shard -> Int] /\ \A s \in Shard : rows[s] = SumFunction(totals[s])
      BY <3>5
    <3>8. own \in [Metric -> Int] /\ totals \in [Shard -> [Metric -> Int]]
      BY <2>0
    <3>9. \A m \in Metric : own[m] = SumFunction(Column(totals, Shard, m))
      BY <2>4 DEF Column
    <3> HIDE DEF rows, own
    <3>10. SumFunction(rows) = SumFunction(own)
      <4>1. SummedTable(totals, Shard, Metric, rows, own)
        BY <3>7, <3>8, <3>9, PipeConstants DEF SummedTable
      <4> QED
        BY <4>1, SumsExchange
    <3>11. ~output.failed => output.emitted = sent
      BY <2>0, <3>1, <3>2
    <3>12. SumFunction(own) = sent
      BY <2>7, <3>2
    <3> QED
      BY <3>6, <3>10, <3>11, <3>12
  <2> QED
    BY <2>8, <2>9
<1> QED
  BY <1>1, PipeInitially, PipeInductive, PTL DEF PipeSpec

-----------------------------------------------------------------------------
(***************************************************************************)
(* The five side by side.                                                  *)
(***************************************************************************)

\* What a run sends and measures stays well typed, whichever part of it runs:
\* each part keeps its own invariant, and a part that does not run keeps its
\* state.
THEOREM TrafficTyped == Spec => []TrafficTypeOK
<1> DEFINE I == RpsInv /\ ChainInv /\ CacheInv /\ PipeInv /\ StripeInv /\ DistInv
<1>1. Init => I
  BY RpsInitially, HttpInitially, PipeInitially, StripesInitially, DistInitially DEF Init
<1>2. I /\ [Next]_vars => I'
  <2> SUFFICES ASSUME I, [Next]_vars
               PROVE  /\ [RpsNext]_rpsVars /\ [HttpNext]_httpVars /\ [PipeNext]_pipeVars
                      /\ [StripeNext]_stripeVars /\ [DistNext]_distVars
    BY RpsInductive, ChainInductive, CacheInductive, PipeInductive, StripesInductive, DistInductive
  <2> QED
    BY DEF Next, Rps, Http, Pipeline, Nodes, Controller, vars
<1>3. I => TrafficTypeOK
  <2>1. RpsInv => RpsTypeOK
    BY DEF RpsInv
  <2>2. ChainInv /\ CacheInv => HttpTypeOK
    BY DEF ChainInv, CacheInv, Distinct, HttpTypeOK
  <2>3. PipeInv => PipeTypeOK
    BY DEF PipeInv
  <2>4. DistInv => DistTypeOK
    BY DEF DistInv
  <2> QED
    BY <2>1, <2>2, <2>3, <2>4, StripesTyped DEF TrafficTypeOK
<1> QED
  BY <1>1, <1>2, <1>3, PTL DEF Spec
=============================================================================
