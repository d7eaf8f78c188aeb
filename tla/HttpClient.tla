----------------------------- MODULE HttpClient -----------------------------
(***************************************************************************)
(* HttpClient::execute_with_jar (crates/tropel-http/src/client.rs) and the *)
(* DNS cache all the VUs share (dns.rs).  A request is a loop over         *)
(* redirect hops; each hop waits for the rps limiter, is checked, built    *)
(* and signed, resolves its host unless a pooled connection serves it, is  *)
(* sent, and sent once more if it is challenged (Digest).                  *)
(*                                                                         *)
(* The rps limiter is a step that returns (RpsLimiter models it).  TTLs    *)
(* are one constant, so the cache is kept in order of expiry and an entry  *)
(* expires at its front; with `inf` nothing expires.  Headers, cookies,    *)
(* bodies and timings are data, and are left out.                          *)
(***************************************************************************)
EXTENDS Integers, Sequences, SequencesExt

CONSTANTS
  Requester,      \* VUs
  Host,           \* host names
  MaxRedirects,   \* max_redirects
  MaxEntries,     \* MAX_CACHE_ENTRIES
  CacheModes      \* the dns.ttl settings to try: a subset of CacheMode

CacheMode == {"off", "ttl", "forever"}

ASSUME HttpAssumption ==
  /\ MaxRedirects \in Nat /\ MaxEntries \in Nat \ {0}
  /\ CacheModes \subseteq CacheMode /\ Host # {}

VARIABLES
  cacheMode,      \* dns.ttl
  cache,          \* hosts with an entry, in the order they expire
  expired,        \* how many of them, from the front, have expired
  request         \* what each VU's execute_with_jar holds

cacheVars == <<cacheMode, cache, expired>>
httpVars == <<cacheMode, cache, expired, request>>

Step == {"idle", "pace", "check", "connect", "lookup", "send", "respond", "body",
         "bodyOfRedirect"}

\* host: of current_url; follow: manual_follow; signer: there is one;
\* hops: redirects.len(); sends: history, what it has put on the wire.
Request ==
  [step : Step, host : Host, follow : BOOLEAN, signer : BOOLEAN, hops : Nat, sends : Nat]

HttpTypeOK ==
  /\ cacheMode \in CacheMode /\ cache \in Seq(Host) /\ expired \in 0..Len(cache)
  /\ request \in [Requester -> Request]

\* A VU with no request under way.
Idle ==
  [step |-> "idle", host |-> CHOOSE h \in Host : TRUE, follow |-> FALSE,
   signer |-> FALSE, hops |-> 0, sends |-> 0]

HttpInit ==
  /\ cacheMode \in CacheModes /\ cache = <<>> /\ expired = 0
  /\ request = [v \in Requester |-> Idle]

At(v, s) == request[v].step = s
Move(v, s) == request' = [request EXCEPT ![v].step = s]

\* execute_with_jar returns, with a response or an error.
Return(v) == request' = [request EXCEPT ![v] = Idle]

-----------------------------------------------------------------------------
(* The DNS cache.                                                          *)

Fresh(h) == cacheMode # "off" /\ h \in Range(SubSeq(cache, expired + 1, Len(cache)))

\* Mutant: room for what is there, not for what comes.
EvictTooFew(s, h) ==
  LET others == RemoveFirst(s, h)
      surplus == IF Len(s) > MaxEntries THEN Len(s) - MaxEntries ELSE 0
  IN SubSeq(others, surplus + 1, Len(others))

\* The entries that stay when h is put: the soonest to expire go first, until
\* there is room for one more; an older entry of h is replaced.
Evict(s, h) ==
  LET others == RemoveFirst(s, h)
      surplus == IF Len(s) >= MaxEntries THEN Len(s) + 1 - MaxEntries ELSE 0
  IN SubSeq(others, surplus + 1, Len(others))

\* What is live when a host is put, in the order it expires; with `inf` no order
\* is given, and any is possible.
Live ==
  IF cacheMode = "forever" THEN SetToSeqs(Range(cache))
  ELSE {SubSeq(cache, expired + 1, Len(cache))}

\* cache_put: drop what has expired, make room, insert.
CachePut(h) ==
  IF cacheMode = "off"
    THEN UNCHANGED <<cache, expired>>
    ELSE /\ \E live \in Live : cache' = Append(Evict(live, h), h)
         /\ expired' = 0

Expire ==
  /\ cacheMode = "ttl" /\ expired < Len(cache)
  /\ expired' = expired + 1
  /\ UNCHANGED <<cacheMode, cache, request>>

-----------------------------------------------------------------------------
(* The hop loop.                                                           *)

Execute(v) ==
  /\ At(v, "idle")
  /\ \E h \in Host, f \in BOOLEAN, s \in BOOLEAN :
       request' = [request EXCEPT ![v] =
                     [step |-> "pace", host |-> h, follow |-> f /\ MaxRedirects > 0,
                      signer |-> s, hops |-> 0, sends |-> 0]]
  /\ UNCHANGED cacheVars

Paced(v) == At(v, "pace") /\ Move(v, "check") /\ UNCHANGED cacheVars

\* A blacklisted literal, a URL or method that does not parse, or a signer
\* that fails ends the request; else the hop is built and signed.
Check(v) == At(v, "check") /\ (Move(v, "connect") \/ Return(v)) /\ UNCHANGED cacheVars

\* A pooled connection, a static host or a fresh entry needs no lookup; a
\* connection that cannot be made is an error of Send.
Connect(v) ==
  /\ At(v, "connect")
  /\ \/ Move(v, "send")
     \/ ~Fresh(request[v].host) /\ Move(v, "lookup")
  /\ UNCHANGED cacheVars

\* Lookups of one host by two VUs are not merged; each puts its answer.  An
\* answer that is empty, of the wrong family or all blacklisted is an error.
Lookup(v) ==
  /\ At(v, "lookup")
  /\ \/ Move(v, "send") /\ CachePut(request[v].host)
     \/ Return(v) /\ UNCHANGED <<cache, expired>>
  /\ UNCHANGED cacheMode

\* The hop goes out; if it has a signer that answers the 401, it goes out once
\* more, without waiting for the limiter.  Each send may fail or time out.
Send(v) ==
  /\ At(v, "send")
  /\ \/ \E n \in 1..(IF request[v].signer THEN 2 ELSE 1) :
          request' = [request EXCEPT ![v].step = "respond", ![v].sends = @ + n]
     \/ Return(v)
  /\ UNCHANGED cacheVars

\* Any status but a redirect: the body is next.
Final(v) == At(v, "respond") /\ Move(v, "body") /\ UNCHANGED cacheVars

\* Mutant: the budget ends the loop quietly.
GiveBackRedirect(v) ==
  /\ At(v, "respond") /\ request[v].follow /\ request[v].hops >= MaxRedirects
  /\ Move(v, "bodyOfRedirect")
  /\ UNCHANGED cacheVars

\* "stopped after N redirects"
TooManyRedirects(v) ==
  /\ At(v, "respond") /\ request[v].follow /\ request[v].hops >= MaxRedirects
  /\ Return(v)
  /\ UNCHANGED cacheVars

\* The hop is kept, its body drained, and the Location is next.  A body past
\* its cap or a Location that does not parse is an error.
Redirect(v) ==
  /\ At(v, "respond") /\ request[v].follow /\ request[v].hops < MaxRedirects
  /\ \/ \E h \in Host : request' = [request EXCEPT ![v].step = "pace", ![v].host = h,
                                                   ![v].hops = @ + 1]
     \/ Return(v)
  /\ UNCHANGED cacheVars

\* A redirect that is not followed, or has no Location, is handed back.
RedirectAsIs(v) ==
  /\ At(v, "respond") /\ (request[v].follow => request[v].hops < MaxRedirects)
  /\ Move(v, "bodyOfRedirect")
  /\ UNCHANGED cacheVars

\* The body is read or drained, fails, or runs past its cap.
ReadBody(v) ==
  /\ request[v].step \in {"body", "bodyOfRedirect"}
  /\ Return(v)
  /\ UNCHANGED cacheVars

Work(v) ==
  \/ Paced(v) \/ Check(v) \/ Connect(v) \/ Lookup(v) \/ Send(v)
  \/ Final(v) \/ TooManyRedirects(v) \/ Redirect(v) \/ RedirectAsIs(v) \/ ReadBody(v)

HttpNext == Expire \/ \E v \in Requester : Execute(v) \/ Work(v)

HttpSpec == HttpInit /\ [][HttpNext]_httpVars

-----------------------------------------------------------------------------
(* Properties.                                                             *)

\* The cache holds no more entries than its cap, and one for each host, however
\* the lookups of the VUs overlap and whatever expires while they run.
CacheBounded ==
  /\ Len(cache) <= MaxEntries
  /\ \A i, j \in 1..Len(cache) : cache[i] = cache[j] => i = j

\* A server that redirects or challenges for ever costs a request a bounded
\* number of sends, and a chain cut by max_redirects is an error that the run
\* counts: it is never handed to the script as a response.
ChainIsBounded ==
  \A v \in Requester :
    /\ request[v].sends <= 2 * (request[v].hops + 1)
    /\ request[v].hops <= MaxRedirects
    /\ At(v, "bodyOfRedirect") /\ request[v].follow => request[v].hops < MaxRedirects
=============================================================================
