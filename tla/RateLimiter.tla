----------------------------- MODULE RateLimiter -----------------------------
(***************************************************************************)
(* One bucket of the fixed-window limiter, backend/app/ratelimit.py: every *)
(* request asks the clock for its window, increments the Redis counter of  *)
(* its caller and window, gives a fresh counter a TTL in a second command, *)
(* and is refused when the count it was given exceeds the caller's limit.  *)
(* Redis, the clock and other requests may do anything between two steps.  *)
(*                                                                         *)
(* Several processes serve requests.  One whose ping failed at start-up    *)
(* (main.py lifespan) has no Redis client and limits nothing.              *)
(***************************************************************************)
EXTENDS Integers, Sequences, FiniteSets

CONSTANTS
  Request,        (* requests for one rate-limited route                   *)
  Address,        (* IP addresses                                          *)
  Token,          (* valid bearer tokens                                   *)
  NoToken,        (* no token, or one that does not decode                 *)
  Proxy,          (* address of each trusted proxy but the outermost       *)
  Proxies,        (* trusted_proxy_count, and the proxies in the path      *)
  Caller,         (* who sends requests: token, own address, sent header   *)
  AnonLimit, AuthLimit,
  Window,         (* window_seconds                                        *)
  Horizon,        (* how long the clock runs                               *)
  MaxMishaps      (* how often Redis or a process fails in a behaviour     *)

\* get_client_id marks its results "tok:" and "ip:": no token is an address.
ASSUME ConstantsAssumption ==
  /\ IsFiniteSet(Request)
  /\ NoToken \notin Token
  /\ Token \cap Address = {}
  /\ Proxies \in Nat \ {0}
  /\ Caller \subseteq [token : Token \cup {NoToken}, address : Address, sent : Seq(Address)]
  /\ AnonLimit \in Nat \ {0}
  /\ AuthLimit \in Nat \ {0}
  /\ Window \in Nat \ {0}
  /\ Horizon \in Nat
  /\ MaxMishaps \in Nat

Slots   == 0 .. Horizon \div Window
Bucket  == (Address \cup Token) \X Slots
Forever == Horizon + 1      \* also any time after the horizon
NoTime  == -1

VARIABLES
  caller,     (* who sends each request                                    *)
  now,        (* the clock                                                 *)
  stage,      (* where each request is in RateLimiter.check                *)
  asked,      (* when it computed its window                               *)
  count,      (* what INCR gave it                                         *)
  late,       (* requests whose INCR came more than a window after that    *)
  verdict,    (* what check decided: none until then, and if it fails open *)
  until,      (* the time a refusal tells the client to wait for           *)
  counter,    (* the Redis counters; 0 is no key                           *)
  expiry,     (* when each of them expires                                 *)
  lost,       (* how often Redis has lost each counter before its time     *)
  mishaps     (* failures that may still happen                            *)

vars ==
  <<caller, now, stage, asked, count, late, verdict, until, counter, expiry,
    lost, mishaps>>

TypeOK ==
  /\ caller \in [Request -> Caller]
  /\ now \in 0..Horizon
  /\ stage \in [Request -> {"new", "incr", "expire", "decide", "done"}]
  /\ asked \in [Request -> 0..Horizon]
  /\ count \in [Request -> Nat]
  /\ late \subseteq Request
  /\ verdict \in [Request -> {"none", "admit", "refuse"}]
  /\ until \in [Request -> 0..(Horizon + Window) \cup {NoTime}]
  /\ counter \in [Bucket -> Nat]
  /\ expiry \in [Bucket -> 0..Forever]
  /\ lost \in [Bucket -> Nat]
  /\ mishaps \in 0..MaxMishaps

Init ==
  /\ caller \in [Request -> Caller]
  /\ now = 0
  /\ stage = [r \in Request |-> "new"]
  /\ asked = [r \in Request |-> 0]
  /\ count = [r \in Request |-> 0]
  /\ late = {}
  /\ verdict = [r \in Request |-> "none"]
  /\ until = [r \in Request |-> NoTime]
  /\ counter = [b \in Bucket |-> 0]
  /\ expiry = [b \in Bucket |-> Forever]
  /\ lost = [b \in Bucket |-> 0]
  /\ mishaps = MaxMishaps
-----------------------------------------------------------------------------
\* X-Forwarded-For as the application sees it: what the client sent, then
\* one entry from each proxy for the peer that connected to it.
Forwarded(c) == c.sent \o <<c.address>> \o [i \in 1 .. Proxies - 1 |-> Proxy]

Greater(a, b) == IF a > b THEN a ELSE b
Lesser(a, b)  == IF a < b THEN a ELSE b

\* Mutation of ClientIp: the left-most entry, which the client chooses.
LeftMost(hops) == hops[1]

\* _client_ip: the entry trusted_proxy_count from the right (hops are
\* numbered from 1).
ClientIp(hops) == hops[Greater(0, Len(hops) - Greater(1, Proxies)) + 1]

\* get_client_id: a valid token is its own identity, anyone else is an
\* address; is_authenticated grants the higher tier to the same requests.
ClientId(c) == IF c.token # NoToken THEN c.token ELSE ClientIp(Forwarded(c))
Limit(c)    == IF c.token # NoToken THEN AuthLimit ELSE AnonLimit

Slot(r) == asked[r] \div Window

CounterOf(r) == <<ClientId(caller[r]), Slot(r)>>

\* Mutation of TimeToLive: the key lives as long as its window.
OneWindow == Window

\* EXPIRE key window_seconds * 2
TimeToLive == Window * 2

Step(r, to) == stage' = [stage EXCEPT ![r] = to]

Decided(r, v) ==
  /\ Step(r, "done")
  /\ verdict' = [verdict EXCEPT ![r] = v]
  /\ count' = [count EXCEPT ![r] = 0]

Mishap == mishaps > 0 /\ mishaps' = mishaps - 1
-----------------------------------------------------------------------------
\* The process that serves r has attached no Redis client.
PassUnlimited(r) ==
  /\ stage[r] = "new"
  /\ Decided(r, "none")
  /\ UNCHANGED <<caller, now, asked, late, until, counter, expiry, lost, mishaps>>

\* int(time.time()) // window_seconds
AskClock(r) ==
  /\ stage[r] = "new"
  /\ asked' = [asked EXCEPT ![r] = now]
  /\ Step(r, "incr")
  /\ UNCHANGED <<caller, now, count, late, verdict, until, counter, expiry, lost, mishaps>>

Counted(b) == counter' = [counter EXCEPT ![b] = @ + 1]

\* INCR; the first of a key goes on to EXPIRE.
Incr(r) ==
  LET b == CounterOf(r)
  IN  /\ stage[r] = "incr"
      /\ Counted(b)
      /\ count' = [count EXCEPT ![r] = counter[b] + 1]
      /\ late' = IF now > asked[r] + Window THEN late \cup {r} ELSE late
      /\ Step(r, IF counter[b] = 0 THEN "expire" ELSE "decide")
      /\ UNCHANGED <<caller, now, asked, verdict, until, expiry, lost, mishaps>>

\* A key that no longer exists is given no TTL.
TtlSet(b) ==
  expiry' = [expiry EXCEPT ![b] = IF counter[b] = 0 THEN @ ELSE Lesser(now + TimeToLive, Forever)]

SetTtl(r) ==
  /\ stage[r] = "expire"
  /\ TtlSet(CounterOf(r))
  /\ Step(r, "decide")
  /\ UNCHANGED <<caller, now, asked, count, late, verdict, until, counter, lost, mishaps>>

\* Mutation of Reset: the elapsed part of the window instead of the rest.
Elapsed == Greater(1, now % Window)

\* max(1, window_seconds - now % window_seconds)
Reset == Greater(1, Window - (now % Window))

\* 429 with Retry-After, or the headers of a request that passes.
Decide(r) ==
  /\ stage[r] = "decide"
  /\ IF count[r] > Limit(caller[r])
     THEN Decided(r, "refuse") /\ until' = [until EXCEPT ![r] = now + Reset]
     ELSE Decided(r, "admit")  /\ UNCHANGED until
  /\ UNCHANGED <<caller, now, asked, late, counter, expiry, lost, mishaps>>

\* A Redis command raises, whether or not it took effect: fail open.
RedisFails(r) ==
  /\ Mishap
  /\ \/ stage[r] = "incr"   /\ (Counted(CounterOf(r)) \/ UNCHANGED counter) /\ UNCHANGED expiry
     \/ stage[r] = "expire" /\ (TtlSet(CounterOf(r)) \/ UNCHANGED expiry)   /\ UNCHANGED counter
  /\ Decided(r, "none")
  /\ UNCHANGED <<caller, now, asked, late, until, lost>>

\* The process that serves r dies; Redis keeps its keys.
Abort(r) ==
  /\ Mishap
  /\ stage[r] \notin {"new", "done"}
  /\ Decided(r, "none")
  /\ UNCHANGED <<caller, now, asked, late, until, counter, expiry, lost>>

\* A second passes; Redis drops the keys whose time has come.
Tick ==
  LET gone == {b \in Bucket : expiry[b] <= now + 1}
  IN  /\ now < Horizon
      /\ now' = now + 1
      /\ counter' = [b \in Bucket |-> IF b \in gone THEN 0 ELSE counter[b]]
      /\ expiry'  = [b \in Bucket |-> IF b \in gone THEN Forever ELSE expiry[b]]
      /\ UNCHANGED <<caller, stage, asked, count, late, verdict, until, lost, mishaps>>

\* Redis evicts keys, or restarts without those it had not saved.
LoseKeys ==
  /\ Mishap
  /\ \E gone \in SUBSET {b \in Bucket : counter[b] # 0} :
       /\ counter' = [b \in Bucket |-> IF b \in gone THEN 0 ELSE counter[b]]
       /\ expiry'  = [b \in Bucket |-> IF b \in gone THEN Forever ELSE expiry[b]]
       /\ lost'    = [b \in Bucket |-> IF b \in gone THEN lost[b] + 1 ELSE lost[b]]
  /\ UNCHANGED <<caller, now, stage, asked, count, late, verdict, until>>

Check(r) ==
  \/ PassUnlimited(r) \/ AskClock(r) \/ Incr(r) \/ SetTtl(r) \/ Decide(r) \/ RedisFails(r)

Next ==
  \/ \E r \in Request : Check(r) \/ Abort(r)
  \/ Tick \/ LoseKeys

Spec == Init /\ [][Next]_vars
-----------------------------------------------------------------------------
\* Who really sent the request.
Origin(r) == IF caller[r].token # NoToken THEN caller[r].token ELSE caller[r].address

Fellows(r) == {q \in Request : Origin(q) = Origin(r) /\ Slot(q) = Slot(r)}

\* ratelimit.py:231: "Set TTL to 2x window so the key outlives the window by
\* one slot": of the requests one caller makes in one window, no more than
\* the limit are admitted, and as many again each time Redis loses its
\* counter, although requests compute their window, count and set the TTL at
\* different times and with headers of the caller's choice, as long as INCR
\* follows within a window.  (Requests that fail open are not admitted by the
\* limiter.)
WithinBudget ==
  \A r \in Request :
    Cardinality({q \in Fellows(r) : verdict[q] = "admit" /\ q \notin late})
      <= Limit(caller[r]) * (lost[<<Origin(r), Slot(r)>>] + 1)

\* A caller is refused only for requests of its own, made in the same
\* window: never for another caller's, and never for those of a window whose
\* Retry-After has passed.
RefusalIsEarned ==
  \A r \in Request : verdict[r] = "refuse" =>
    Cardinality({q \in Fellows(r) \ {r} : stage[q] # "new"}) >= Limit(caller[r])

\* ratelimit.py:233, 76: a refused caller that comes back no earlier than
\* Retry-After says is measured by what happens after that time only: it is
\* refused again only if it makes the limit's worth of other requests then.
WaitingHelps ==
  \A r, q \in Request :
    verdict[r] = "refuse" /\ verdict[q] = "refuse" /\ Origin(q) = Origin(r) /\ asked[q] >= until[r] =>
      Cardinality({p \in Fellows(q) \ {q} : stage[p] # "new" /\ asked[p] >= until[r]})
        >= Limit(caller[q])
=============================================================================
