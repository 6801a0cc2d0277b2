--------------------------- MODULE LimiterProofs ---------------------------
(***************************************************************************)
(* Proofs about RateLimiter for any number of requests, callers and        *)
(* proxies, any limits and any window.                                     *)
(***************************************************************************)
EXTENDS RateLimiter, TLAPS, FiniteSetTheorems, SequenceTheorems

USE ConstantsAssumption

\* Arithmetic of windows: the whole ones, and what is left.
LEMMA Windows ==
  ASSUME NEW t \in Nat
  PROVE  /\ t \div Window \in Nat /\ t % Window \in 0 .. Window - 1
         /\ t = Window * (t \div Window) + (t % Window)
         /\ Window * (t \div Window) <= t /\ t < Window * (t \div Window) + Window
<1>1. t \div Window \in Nat /\ t % Window \in 0 .. Window - 1
  OBVIOUS
<1>2. t = Window * (t \div Window) + (t % Window)
  OBVIOUS
<1>3. QED
  BY <1>1, <1>2

LEMMA Scaled ==
  ASSUME NEW m \in Nat, NEW n \in Nat, m <= n
  PROVE  Window * m <= Window * n /\ Window * m \in Nat
  OBVIOUS

LEMMA SlotOf ==
  ASSUME NEW t \in Nat, NEW k \in Nat
  PROVE  (t \div Window >= k) <=> (t >= Window * k)
<1> DEFINE d == t \div Window
<1>1. d \in Nat /\ Window * d <= t /\ t < Window * d + Window
  BY Windows
<1> HIDE DEF d
<1>2. CASE d >= k
  BY <1>1, <1>2, Scaled
<1>3. CASE d < k
  <2>1. Window * (d + 1) <= Window * k
    BY <1>1, <1>3, Scaled
  <2>2. Window * (d + 1) = Window * d + Window
    BY <1>1
  <2>3. QED
    BY <1>1, <1>3, <2>1, <2>2
<1>4. QED
  BY <1>1, <1>2, <1>3 DEF d

\* ratelimit.py:147: whatever header a client sends, the entry that counts is
\* the address from which it reached the outermost proxy.
LEMMA EntryOfThePeer ==
  ASSUME NEW c \in Caller
  PROVE  ClientIp(Forwarded(c)) = c.address
<1> DEFINE S == Address \cup {Proxy}
           tail == [i \in 1 .. Proxies - 1 |-> Proxy]
<1>1. c.sent \in Seq(S) /\ <<c.address>> \in Seq(S) /\ Len(<<c.address>>) = 1
  OBVIOUS
<1>2. tail \in Seq(S) /\ Len(tail) = Proxies - 1
  OBVIOUS
<1>3. PICK start : start = c.sent \o <<c.address>>
  OBVIOUS
<1>4. /\ start \in Seq(S) /\ Len(start) = Len(c.sent) + 1
      /\ start[Len(c.sent) + 1] = c.address
  BY <1>1, <1>3, ConcatProperties
<1>5. /\ Len(start \o tail) = Len(c.sent) + Proxies
      /\ (start \o tail)[Len(c.sent) + 1] = c.address
  <2> HIDE DEF tail, S
  <2>1. Len(c.sent) \in Nat
    BY <1>1
  <2>2. Len(c.sent) + 1 \in 1 .. Len(start) + Len(tail) /\ Proxies - 1 \in Nat
    BY <1>2, <1>4, <2>1
  <2>0. start \in Seq(S) /\ tail \in Seq(S)
    BY <1>2, <1>4
  <2>3. /\ Len(start \o tail) = Len(start) + Len(tail)
        /\ \A i \in 1 .. Len(start) + Len(tail) :
             (start \o tail)[i] = IF i <= Len(start) THEN start[i] ELSE tail[i - Len(start)]
    BY <2>0, ConcatProperties, ZenonT(30)
  <2>4. QED
    BY <1>2, <1>4, <2>1, <2>2, <2>3
<1>6. Forwarded(c) = start \o tail
  BY <1>3 DEF Forwarded
<1> HIDE DEF tail, S
<1>7. QED
  BY <1>1, <1>5, <1>6 DEF ClientIp, Greater

LEMMA IdIsOrigin ==
  ASSUME caller \in [Request -> Caller], NEW r \in Request
  PROVE  ClientId(caller[r]) = Origin(r) /\ Origin(r) \in Address \cup Token
<1>1. caller[r] \in Caller
  OBVIOUS
<1>2. ClientId(caller[r]) = Origin(r)
  BY <1>1, EntryOfThePeer DEF ClientId, Origin
<1>3. caller[r].token \in Token \cup {NoToken} /\ caller[r].address \in Address
  BY <1>1
<1>4. QED
  BY <1>2, <1>3 DEF Origin

\* Requests of one origin have one limit.
LimitOf(id) == IF id \in Token THEN AuthLimit ELSE AnonLimit

LEMMA OneLimit ==
  ASSUME caller \in [Request -> Caller], NEW r \in Request
  PROVE  Limit(caller[r]) = LimitOf(Origin(r)) /\ Limit(caller[r]) \in Nat \ {0}
<1>1. caller[r].token \in Token \cup {NoToken} /\ caller[r].address \in Address
  OBVIOUS
<1>2. QED
  BY <1>1 DEF Limit, LimitOf, Origin

LEMMA CounterHome ==
  ASSUME TypeOK, NEW r \in Request
  PROVE  /\ CounterOf(r) \in Bucket /\ CounterOf(r) = <<Origin(r), Slot(r)>>
         /\ Slot(r) \in Nat
         /\ Window * Slot(r) <= asked[r] /\ asked[r] < Window * Slot(r) + Window
<1>1. caller \in [Request -> Caller] /\ asked[r] \in 0..Horizon
  BY DEF TypeOK
<1>2. /\ Slot(r) \in Nat /\ Window * Slot(r) <= asked[r]
      /\ asked[r] < Window * Slot(r) + Window
  <2>1. asked[r] \in Nat
    BY <1>1
  <2>2. QED
    BY <2>1, Windows DEF Slot
<1>3. Slot(r) <= Horizon \div Window
  <2>1. Horizon >= Window * Slot(r)
    <3>1. asked[r] \in Int /\ Window * Slot(r) \in Int /\ asked[r] <= Horizon
      BY <1>1, <1>2
    <3>2. QED
      BY <1>2, <3>1
  <2>2. QED
    BY <1>2, <2>1, SlotOf, Windows
<1>4. <<Origin(r), Slot(r)>> \in Bucket
  <2>1. Slot(r) \in Slots
    BY <1>2, <1>3, Windows DEF Slots
  <2>2. QED
    BY <1>1, <2>1, IdIsOrigin DEF Bucket
<1>5. QED
  BY <1>1, <1>2, <1>4, IdIsOrigin DEF CounterOf
-----------------------------------------------------------------------------
(* Types and time.                                                         *)

\* Windows are asked for in the past, only a request that has ended has a
\* verdict, and a key lives through the window after its own.
TimeInv ==
  /\ \A r \in Request : asked[r] <= now
  /\ \A r \in Request : verdict[r] # "none" => stage[r] = "done"
  /\ \A b \in Bucket : Window * b[2] + 2 * Window <= expiry[b] \/ expiry[b] = Forever

USE DEF Step, Decided, Mishap

LEMMA SlotTypes ==
  ASSUME NEW b \in Bucket
  PROVE  b[2] \in Nat /\ Window * b[2] \in Nat /\ Window * b[2] <= Horizon
<1>1. PICK s \in Slots : s = b[2]
  BY DEF Bucket
<1>2. Horizon \div Window \in Nat /\ Window * (Horizon \div Window) <= Horizon
  BY Windows
<1>3. s \in Nat /\ s <= Horizon \div Window
  BY <1>2 DEF Slots
<1>4. Window * s <= Window * (Horizon \div Window) /\ Window * s \in Nat
  BY <1>2, <1>3, Scaled
<1>5. Window * (Horizon \div Window) \in Nat
  BY <1>2, Scaled
<1>6. QED
  BY <1>1, <1>2, <1>3, <1>4, <1>5

LEMMA TimeInit == Init => TypeOK /\ TimeInv
<1> SUFFICES ASSUME Init PROVE TypeOK /\ TimeInv
  OBVIOUS
<1>1. TypeOK
  BY DEF Init, TypeOK, NoTime, Forever
<1>2. QED
  BY <1>1 DEF Init, TimeInv

\* What every step of a request leaves alone.
LEMMA Others ==
  ASSUME TypeOK, NEW r \in Request, Check(r) \/ Abort(r)
  PROVE  /\ caller' = caller /\ now' = now /\ lost' = lost
         /\ \A q \in Request \ {r} :
              /\ stage'[q] = stage[q] /\ asked'[q] = asked[q] /\ count'[q] = count[q]
              /\ verdict'[q] = verdict[q] /\ until'[q] = until[q] /\ (q \in late' <=> q \in late)
BY DEF TypeOK, Check, PassUnlimited, AskClock, Incr, SetTtl, Decide, RedisFails, Abort

\* Retry-After leads to the first instant of the next window.
LEMMA NextWindow ==
  ASSUME NEW t \in Nat, now = t
  PROVE  now + Reset = Window * (t \div Window + 1) /\ Reset \in 1 .. Window
<1>1. t % Window \in 0 .. Window - 1 /\ t = Window * (t \div Window) + (t % Window)
      /\ t \div Window \in Nat
  BY Windows
<1>2. Reset = Window - (t % Window)
  BY <1>1 DEF Reset, Greater
<1>3. Window * (t \div Window + 1) = Window * (t \div Window) + Window
  BY <1>1
<1>4. QED
  BY <1>1, <1>2, <1>3

LEMMA TimeStep == TypeOK /\ TimeInv /\ [Next]_vars => TypeOK' /\ TimeInv'
<1> SUFFICES ASSUME TypeOK, TimeInv, [Next]_vars PROVE TypeOK' /\ TimeInv'
  OBVIOUS
<1>1. CASE UNCHANGED vars
  BY <1>1 DEF vars, TypeOK, TimeInv
<1>2a. ASSUME NEW r \in Request, PassUnlimited(r) PROVE TypeOK' /\ TimeInv'
  <2>1. TypeOK'
    BY <1>2a DEF TypeOK, PassUnlimited
  <2>2. TimeInv'
    BY <1>2a DEF TypeOK, TimeInv, PassUnlimited
  <2>3. QED
    BY <2>1, <2>2
<1>2b. ASSUME NEW r \in Request, AskClock(r) PROVE TypeOK' /\ TimeInv'
  <2>1. TypeOK'
    BY <1>2b DEF TypeOK, AskClock
  <2>2. TimeInv'
    BY <1>2b DEF TypeOK, TimeInv, AskClock
  <2>3. QED
    BY <2>1, <2>2
<1>2c. ASSUME NEW r \in Request, Abort(r) PROVE TypeOK' /\ TimeInv'
  <2>1. TypeOK'
    BY <1>2c DEF TypeOK, Abort
  <2>2. TimeInv'
    BY <1>2c DEF TypeOK, TimeInv, Abort
  <2>3. QED
    BY <2>1, <2>2
<1>3. ASSUME NEW b \in Bucket, Counted(b) PROVE counter' \in [Bucket -> Nat]
  BY <1>3 DEF Counted, TypeOK
<1>4. ASSUME NEW r \in Request, TtlSet(CounterOf(r))
      PROVE  /\ expiry' \in [Bucket -> 0..Forever]
             /\ \A b \in Bucket : Window * b[2] + 2 * Window <= expiry'[b] \/ expiry'[b] = Forever
  <2>1. PICK b \in Bucket : b = CounterOf(r)
    BY CounterHome
  <2>2. Window * b[2] <= now /\ Window * b[2] \in Nat
    <3>1. asked[r] <= now /\ asked[r] \in Nat /\ now \in Nat
      BY DEF TypeOK, TimeInv
    <3>2. b[2] = Slot(r) /\ Window * Slot(r) \in Nat /\ Window * Slot(r) <= asked[r]
      BY <2>1, CounterHome, Scaled
    <3>3. QED
      BY <3>1, <3>2
  <2>3. PICK w : w = Lesser(now + TimeToLive, Forever)
    OBVIOUS
  <2>4. expiry' = [expiry EXCEPT ![b] = IF counter[b] = 0 THEN @ ELSE w]
    BY <1>4, <2>1, <2>3 DEF TtlSet
  <2>5. w \in 0..Forever /\ (Window * b[2] + 2 * Window <= w \/ w = Forever)
    <3>1. now \in 0..Horizon /\ Horizon \in Nat /\ Window \in Nat
      BY DEF TypeOK
    <3>2. (w = now + 2 * Window /\ w <= Horizon + 1) \/ w = Horizon + 1
      BY <2>3, <3>1 DEF TimeToLive, Forever, Lesser
    <3>3. QED
      BY <2>2, <3>1, <3>2 DEF Forever
  <2>6. QED
    BY <2>4, <2>5 DEF TypeOK, TimeInv
<1>5. ASSUME NEW r \in Request, Incr(r) PROVE TypeOK' /\ TimeInv'
  <2>1. counter' \in [Bucket -> Nat] /\ counter[CounterOf(r)] \in Nat
    BY <1>3, <1>5, CounterHome DEF Incr, TypeOK
  <2>2. TypeOK'
    <3>1. count' \in [Request -> Nat]
      BY <1>5, <2>1 DEF Incr, TypeOK
    <3>2. late' \subseteq Request
      BY <1>5 DEF Incr, TypeOK
    <3>3. stage' \in [Request -> {"new", "incr", "expire", "decide", "done"}]
      BY <1>5 DEF Incr, TypeOK
    <3>4. UNCHANGED <<caller, now, asked, verdict, until, expiry, lost, mishaps>>
      BY <1>5 DEF Incr
    <3>5. QED
      BY <2>1, <3>1, <3>2, <3>3, <3>4 DEF TypeOK
  <2>3. TimeInv'
    BY <1>5 DEF Incr, TypeOK, TimeInv
  <2>4. QED
    BY <2>2, <2>3
<1>6. ASSUME NEW r \in Request, SetTtl(r) PROVE TypeOK' /\ TimeInv'
  <2>1. TypeOK'
    BY <1>4, <1>6 DEF SetTtl, TypeOK
  <2>2. TimeInv'
    BY <1>4, <1>6 DEF SetTtl, TypeOK, TimeInv
  <2>3. QED
    BY <2>1, <2>2
<1>7. ASSUME NEW r \in Request, Decide(r) PROVE TypeOK' /\ TimeInv'
  <2>1. now \in Nat /\ now <= Horizon /\ Reset \in 1 .. Window
    BY NextWindow DEF TypeOK
  <2>2. TypeOK'
    <3>1. PICK w : w = now + Reset
      OBVIOUS
    <3>2. w \in 0..(Horizon + Window)
      BY <2>1, <3>1
    <3>3. until' = IF count[r] > Limit(caller[r]) THEN [until EXCEPT ![r] = w] ELSE until
      BY <1>7, <3>1 DEF Decide
    <3>4. until' \in [Request -> 0..(Horizon + Window) \cup {NoTime}]
      BY <3>2, <3>3 DEF TypeOK
    <3>5. PICK v \in {"admit", "refuse"} :
            /\ stage' = [stage EXCEPT ![r] = "done"]
            /\ verdict' = [verdict EXCEPT ![r] = v]
            /\ count' = [count EXCEPT ![r] = 0]
      BY <1>7 DEF Decide
    <3>6. UNCHANGED <<caller, now, asked, late, counter, expiry, lost, mishaps>>
      BY <1>7 DEF Decide
    <3>7. QED
      BY <3>4, <3>5, <3>6 DEF TypeOK
  <2>3. TimeInv'
    BY <1>7 DEF Decide, TypeOK, TimeInv
  <2>4. QED
    BY <2>2, <2>3
<1>8. ASSUME NEW r \in Request, RedisFails(r) PROVE TypeOK' /\ TimeInv'
  <2>1. counter' \in [Bucket -> Nat]
    BY <1>3, <1>8, CounterHome DEF RedisFails, TypeOK
  <2>2. /\ expiry' \in [Bucket -> 0..Forever]
        /\ \A b \in Bucket : Window * b[2] + 2 * Window <= expiry'[b] \/ expiry'[b] = Forever
    BY <1>4, <1>8 DEF RedisFails, TypeOK, TimeInv
  <2>3. TypeOK'
    <3>1. /\ stage' = [stage EXCEPT ![r] = "done"]
          /\ verdict' = [verdict EXCEPT ![r] = "none"]
          /\ count' = [count EXCEPT ![r] = 0]
      BY <1>8 DEF RedisFails, Decided, Step
    <3>2. /\ UNCHANGED <<caller, now, asked, late, until, lost>>
          /\ mishaps > 0 /\ mishaps' = mishaps - 1
      BY <1>8 DEF RedisFails, Mishap
    <3>3. mishaps' \in 0..MaxMishaps
      BY <3>2 DEF TypeOK
    <3>4. QED
      BY <2>1, <2>2, <3>1, <3>2, <3>3 DEF TypeOK
  <2>4. TimeInv'
    BY <1>8, <2>2 DEF RedisFails, TypeOK, TimeInv
  <2>5. QED
    BY <2>3, <2>4
<1>9. CASE Tick
  <2>1. TypeOK'
    BY <1>9 DEF Tick, TypeOK, Forever
  <2>2. ASSUME NEW b \in Bucket
        PROVE  Window * b[2] + 2 * Window <= expiry'[b] \/ expiry'[b] = Forever
    BY <1>9 DEF Tick, TimeInv
  <2>3. \A r \in Request : asked'[r] <= now'
    BY <1>9 DEF Tick, TypeOK, TimeInv
  <2>4. \A r \in Request : verdict'[r] # "none" => stage'[r] = "done"
    BY <1>9 DEF Tick, TimeInv
  <2>5. QED
    BY <2>1, <2>2, <2>3, <2>4 DEF TimeInv
<1>10. CASE LoseKeys
  <2>1. PICK gone \in SUBSET Bucket :
          /\ counter' = [b \in Bucket |-> IF b \in gone THEN 0 ELSE counter[b]]
          /\ expiry'  = [b \in Bucket |-> IF b \in gone THEN Forever ELSE expiry[b]]
          /\ lost'    = [b \in Bucket |-> IF b \in gone THEN lost[b] + 1 ELSE lost[b]]
    BY <1>10 DEF LoseKeys
  <2>2. counter' \in [Bucket -> Nat] /\ expiry' \in [Bucket -> 0..Forever]
    BY <2>1 DEF TypeOK, Forever
  <2>3. lost' \in [Bucket -> Nat]
    BY <2>1 DEF TypeOK
  <2>4. TypeOK'
    BY <1>10, <2>2, <2>3 DEF LoseKeys, TypeOK
  <2>5. TimeInv'
    BY <1>10, <2>1 DEF LoseKeys, TimeInv
  <2>6. QED
    BY <2>4, <2>5
<1>11. QED
  BY <1>1, <1>2a, <1>2b, <1>2c, <1>5, <1>6, <1>7, <1>8, <1>9, <1>10 DEF Next, Check

LEMMA Time == Spec => [](TypeOK /\ TimeInv)
  BY TimeInit, TimeStep, PTL DEF Spec

\* Every variable keeps its type: a request counts in a bucket that exists,
\* and keys expire within the horizon.
THEOREM TypeCorrect == Spec => []TypeOK
  BY Time, PTL
-----------------------------------------------------------------------------
(* Refusals.                                                               *)

\* Requests that have counted themselves at b, or might have.
Past(b) == {q \in Request : stage[q] \notin {"new", "incr"} /\ CounterOf(q) = b}

\* A counter, and what a request was given by it, stays within the requests
\* that have been there; so a refusal needs more of them than the limit.
EarnInv ==
  \A b \in Bucket :
    /\ counter[b] <= Cardinality(Past(b))
    /\ \A r \in Request : CounterOf(r) = b =>
         /\ stage[r] \in {"expire", "decide"} => count[r] <= Cardinality(Past(b))
         /\ verdict[r] = "refuse" => Limit(caller[r]) < Cardinality(Past(b))

LEMMA PastIsFinite ==
  ASSUME NEW b
  PROVE  /\ IsFiniteSet(Past(b)) /\ Cardinality(Past(b)) \in Nat
         /\ IsFiniteSet(Past(b)') /\ Cardinality(Past(b)') \in Nat
<1>1. Past(b) \subseteq Request /\ Past(b)' \subseteq Request
  BY DEF Past
<1>2. QED
  BY <1>1, FS_Subset, FS_CardinalityType

\* Nobody forgets its window or goes back.
LEMMA Onward ==
  ASSUME TypeOK, [Next]_vars
  PROVE  /\ caller' = caller
         /\ \A q \in Request :
              /\ stage[q] # "new" => asked'[q] = asked[q] /\ stage'[q] # "new"
              /\ stage[q] \notin {"new", "incr"} => stage'[q] \notin {"new", "incr"}
              /\ stage'[q] \in {"expire", "decide"} => stage[q] # "new"
              /\ verdict'[q] = "refuse" => stage[q] = "decide" \/ verdict[q] = "refuse"
<1>1. CASE UNCHANGED vars
  BY <1>1 DEF vars, TypeOK
<1>2. CASE Tick \/ LoseKeys
  BY <1>2 DEF Tick, LoseKeys, TypeOK
<1>3. ASSUME NEW r \in Request, Check(r) \/ Abort(r)
      PROVE  /\ caller' = caller
             /\ \A q \in Request :
                  /\ stage[q] # "new" => asked'[q] = asked[q] /\ stage'[q] # "new"
                  /\ stage[q] \notin {"new", "incr"} => stage'[q] \notin {"new", "incr"}
                  /\ stage'[q] \in {"expire", "decide"} => stage[q] # "new"
                  /\ verdict'[q] = "refuse" => stage[q] = "decide" \/ verdict[q] = "refuse"
  <2>1. /\ stage[r] # "new" => asked'[r] = asked[r] /\ stage'[r] # "new"
        /\ stage[r] \notin {"new", "incr"} => stage'[r] \notin {"new", "incr"}
        /\ stage'[r] \in {"expire", "decide"} => stage[r] # "new"
        /\ verdict'[r] = "refuse" => stage[r] = "decide" \/ verdict[r] = "refuse"
    BY <1>3 DEF TypeOK, Check, PassUnlimited, AskClock, Incr, SetTtl, Decide, RedisFails, Abort
  <2>2. QED
    BY <1>3, <2>1, Others
<1>4. QED
  BY <1>1, <1>2, <1>3 DEF Next

LEMMA PastGrows ==
  ASSUME TypeOK, [Next]_vars, NEW b
  PROVE  /\ Cardinality(Past(b)) <= Cardinality(Past(b)')
         /\ \A r \in Request :
              CounterOf(r) = b /\ stage[r] = "incr" /\ stage'[r] \notin {"new", "incr"} =>
                Cardinality(Past(b)) + 1 <= Cardinality(Past(b)')
<1>1. \A q \in Request : stage[q] # "new" => (CounterOf(q))' = CounterOf(q)
  BY Onward DEF CounterOf, Slot
<1>2. Past(b) \subseteq Past(b)'
  BY <1>1, Onward DEF Past
<1>3. ASSUME NEW r \in Request,
             CounterOf(r) = b, stage[r] = "incr", stage'[r] \notin {"new", "incr"}
      PROVE  Cardinality(Past(b)) + 1 <= Cardinality(Past(b)')
  <2>1. r \in Past(b)' /\ r \notin Past(b)
    BY <1>1, <1>3 DEF Past
  <2>2. Cardinality(Past(b) \cup {r}) = Cardinality(Past(b)) + 1
    BY <2>1, PastIsFinite, FS_AddElement
  <2>3. Past(b) \cup {r} \subseteq Past(b)'
    BY <1>2, <2>1
  <2>4. Cardinality(Past(b) \cup {r}) <= Cardinality(Past(b)')
    BY <2>3, PastIsFinite, FS_Subset
  <2>5. QED
    BY <2>2, <2>4
<1>4. Cardinality(Past(b)) <= Cardinality(Past(b)')
  BY <1>2, PastIsFinite, FS_Subset
<1>5. QED
  BY <1>3, <1>4

\* What happens to a counter and to what requests were given by it.
LEMMA Counting ==
  ASSUME TypeOK, [Next]_vars, NEW b \in Bucket
  PROVE  /\ \/ counter'[b] \in {0, counter[b]}
            \/ /\ counter'[b] = counter[b] + 1
               /\ \E r \in Request :
                    CounterOf(r) = b /\ stage[r] = "incr" /\ stage'[r] \notin {"new", "incr"}
         /\ \A q \in Request :
              /\ stage'[q] \in {"expire", "decide"} =>
                   \/ stage[q] \in {"expire", "decide"} /\ count'[q] = count[q]
                   \/ /\ stage[q] = "incr"
                      /\ CounterOf(q) = b => count'[q] = counter[b] + 1
              /\ verdict'[q] = "refuse" =>
                   \/ verdict[q] = "refuse"
                   \/ stage[q] = "decide" /\ count[q] > Limit(caller[q])
<1>1. CASE UNCHANGED vars
  BY <1>1 DEF vars, TypeOK
<1>2. CASE Tick \/ LoseKeys
  BY <1>2 DEF Tick, LoseKeys, TypeOK
<1>3. ASSUME NEW r \in Request, PassUnlimited(r) \/ AskClock(r) \/ SetTtl(r) \/ Abort(r)
      PROVE  /\ counter'[b] = counter[b]
             /\ stage'[r] \in {"expire", "decide"} =>
                  stage[r] \in {"expire", "decide"} /\ count'[r] = count[r]
             /\ verdict'[r] = "refuse" => verdict[r] = "refuse"
  BY <1>3 DEF TypeOK, PassUnlimited, AskClock, SetTtl, Abort
<1>4. ASSUME NEW r \in Request, Decide(r)
      PROVE  /\ counter'[b] = counter[b]
             /\ stage'[r] = "done"
             /\ verdict'[r] = "refuse" => stage[r] = "decide" /\ count[r] > Limit(caller[r])
  BY <1>4 DEF TypeOK, Decide
<1>5. ASSUME NEW c \in Bucket, Counted(c)
      PROVE  counter'[b] = IF b = c THEN counter[b] + 1 ELSE counter[b]
  BY <1>5 DEF Counted, TypeOK
<1>6. ASSUME NEW r \in Request, Incr(r)
      PROVE  /\ stage[r] = "incr" /\ stage'[r] \in {"expire", "decide"}
             /\ counter'[b] = IF b = CounterOf(r) THEN counter[b] + 1 ELSE counter[b]
             /\ CounterOf(r) = b => count'[r] = counter[b] + 1
             /\ verdict'[r] = verdict[r]
  BY <1>5, <1>6, CounterHome DEF TypeOK, Incr
<1>7. ASSUME NEW r \in Request, RedisFails(r)
      PROVE  /\ stage'[r] = "done" /\ verdict'[r] = "none"
             /\ \/ counter'[b] = counter[b]
                \/ counter'[b] = counter[b] + 1 /\ b = CounterOf(r) /\ stage[r] = "incr"
  <2>1. stage'[r] = "done" /\ verdict'[r] = "none"
    BY <1>7 DEF TypeOK, RedisFails
  <2>2. CASE counter' = counter
    BY <2>1, <2>2
  <2>3. CASE stage[r] = "incr" /\ Counted(CounterOf(r))
    BY <1>5, <2>1, <2>3, CounterHome
  <2>4. QED
    BY <1>7, <2>2, <2>3 DEF RedisFails
<1>8. ASSUME NEW r \in Request, Check(r) \/ Abort(r)
      PROVE  \A q \in Request \ {r} :
               stage'[q] = stage[q] /\ count'[q] = count[q] /\ verdict'[q] = verdict[q]
  BY <1>8, Others
<1>9. QED
  BY <1>1, <1>2, <1>3, <1>4, <1>6, <1>7, <1>8 DEF Next, Check

LEMMA EarnStep ==
  ASSUME TypeOK, TimeInv, EarnInv, [Next]_vars
  PROVE  EarnInv'
<1> SUFFICES ASSUME NEW b \in Bucket
             PROVE  /\ counter'[b] <= Cardinality(Past(b)')
                    /\ \A r \in Request : (CounterOf(r) = b)' =>
                         /\ stage'[r] \in {"expire", "decide"} => count'[r] <= Cardinality(Past(b)')
                         /\ verdict'[r] = "refuse" => (Limit(caller[r]))' < Cardinality(Past(b)')
  BY DEF EarnInv
<1>1. PICK m \in Nat, n \in Nat : m = Cardinality(Past(b)) /\ n = Cardinality(Past(b)')
  BY PastIsFinite
<1>2. /\ m <= n /\ counter[b] \in Nat /\ counter[b] <= m
      /\ \A r \in Request :
           CounterOf(r) = b /\ stage[r] = "incr" /\ stage'[r] \notin {"new", "incr"} => m + 1 <= n
  BY <1>1, PastGrows DEF EarnInv, TypeOK
<1>3. counter'[b] <= n
  BY <1>2, Counting
<1>4. ASSUME NEW r \in Request, (CounterOf(r) = b)'
      PROVE  /\ stage'[r] \in {"expire", "decide"} => count'[r] <= n
             /\ verdict'[r] = "refuse" => (Limit(caller[r]))' < n
  <2>1. stage[r] # "new" => CounterOf(r) = b
    BY <1>4, Onward DEF CounterOf, Slot
  <2>2. (Limit(caller[r]))' = Limit(caller[r]) /\ Limit(caller[r]) \in Nat
    BY Onward, OneLimit DEF TypeOK
  <2>3. ASSUME stage'[r] \in {"expire", "decide"}
        PROVE  count'[r] <= n
    <3>1. CounterOf(r) = b
      BY <2>1, <2>3, Onward
    <3>2. CASE stage[r] \in {"expire", "decide"} /\ count'[r] = count[r]
      <4>1. count[r] <= m /\ count[r] \in Nat
        BY <1>1, <3>1, <3>2 DEF EarnInv, TypeOK
      <4>2. QED
        BY <1>2, <3>2, <4>1
    <3>3. CASE stage[r] = "incr" /\ count'[r] = counter[b] + 1
      BY <1>2, <2>3, <3>1, <3>3
    <3>4. QED
      BY <2>3, <3>1, <3>2, <3>3, Counting
  <2>4. ASSUME verdict'[r] = "refuse"
        PROVE  Limit(caller[r]) < n
    <3>1. CASE stage[r] = "decide" /\ count[r] > Limit(caller[r])
      <4>1. count[r] <= m /\ count[r] \in Nat
        BY <1>1, <2>1, <3>1 DEF EarnInv, TypeOK
      <4>2. QED
        BY <1>2, <2>2, <3>1, <4>1
    <3>2. CASE verdict[r] = "refuse" /\ stage[r] # "new"
      BY <1>1, <1>2, <2>1, <2>2, <3>2 DEF EarnInv
    <3>3. QED
      <4>1. verdict[r] = "refuse" => stage[r] # "new"
        BY DEF TimeInv
      <4>2. QED
        BY <2>4, <3>1, <3>2, <4>1, Counting
  <2>5. QED
    BY <2>2, <2>3, <2>4
<1>5. QED
  BY <1>1, <1>3, <1>4
-----------------------------------------------------------------------------
(* The budget.                                                             *)

\* Requests that were counted in time at b and may pass, or have passed.
Given(b) ==
  {q \in Request :
     /\ CounterOf(q) = b
     /\ q \notin late
     /\ \/ verdict[q] = "admit"
        \/ stage[q] \in {"expire", "decide"} /\ count[q] <= Limit(caller[q])}

\* While requests of a window may be counted in time, their key exists and
\* has counted whoever may pass since it was last lost; later nobody can join
\* them.
BudgetInv ==
  \A b \in Bucket :
    /\ Cardinality(Given(b)) <= LimitOf(b[1]) * (lost[b] + 1)
    /\ now < Window * b[2] + 2 * Window =>
         Cardinality(Given(b)) <= counter[b] + LimitOf(b[1]) * lost[b]

LEMMA GivenIsFinite ==
  ASSUME NEW b
  PROVE  /\ IsFiniteSet(Given(b)) /\ Cardinality(Given(b)) \in Nat
         /\ IsFiniteSet(Given(b)') /\ Cardinality(Given(b)') \in Nat
<1>1. Given(b) \subseteq Request /\ Given(b)' \subseteq Request
  BY DEF Given
<1>2. QED
  BY <1>1, FS_Subset, FS_CardinalityType

\* INCR is the only way in.
LEMMA Joining ==
  ASSUME TypeOK, TimeInv, [Next]_vars, NEW b \in Bucket
  PROVE  \/ Given(b)' \subseteq Given(b)
         \/ \E r \in Request :
              /\ Incr(r) /\ CounterOf(r) = b /\ now <= asked[r] + Window
              /\ counter[b] + 1 <= Limit(caller[r])
              /\ Given(b)' \subseteq Given(b) \cup {r}
<1>0. /\ caller' = caller
      /\ \A q \in Request : stage[q] # "new" => CounterOf(q)' = CounterOf(q)
  BY Onward DEF CounterOf, Slot
<1>1. CASE UNCHANGED vars \/ Tick \/ LoseKeys
  <2>1. UNCHANGED <<caller, asked, late, verdict, stage, count>>
    BY <1>1 DEF vars, Tick, LoseKeys
  <2>2. QED
    BY <2>1 DEF Given, CounterOf, Slot
<1>2. ASSUME NEW r \in Request, Check(r) \/ Abort(r)
      PROVE  Given(b)' \subseteq Given(b) \cup {r}
  BY <1>0, <1>2, Others DEF Given, CounterOf, Slot
<1>3. ASSUME NEW r \in Request, PassUnlimited(r) \/ AskClock(r) \/ RedisFails(r) \/ Abort(r)
      PROVE  r \notin Given(b)'
  BY <1>3 DEF Given, TypeOK, TimeInv, PassUnlimited, AskClock, RedisFails, Abort
<1>4. ASSUME NEW r \in Request, SetTtl(r), r \in Given(b)'
      PROVE  r \in Given(b)
  <2>1. /\ stage[r] = "expire" /\ count' = count /\ verdict' = verdict /\ late' = late
        /\ verdict[r] = "none"
    BY <1>4 DEF SetTtl, TypeOK, TimeInv
  <2>2. QED
    BY <1>0, <1>4, <2>1 DEF Given
<1>5. ASSUME NEW r \in Request, Decide(r), r \in Given(b)'
      PROVE  r \in Given(b)
  <2>1. stage[r] = "decide" /\ stage'[r] = "done" /\ late' = late
    BY <1>5 DEF Decide, TypeOK
  <2>2. verdict'[r] = "admit" => count[r] <= Limit(caller[r])
    <3>1. count[r] \in Nat /\ Limit(caller[r]) \in Nat
      BY OneLimit DEF TypeOK
    <3>2. QED
      BY <1>5, <3>1 DEF Decide, TypeOK
  <2>3. QED
    BY <1>0, <1>5, <2>1, <2>2 DEF Given
<1>6. ASSUME NEW r \in Request, Incr(r), r \in Given(b)'
      PROVE  /\ CounterOf(r) = b /\ now <= asked[r] + Window
             /\ counter[b] + 1 <= Limit(caller[r])
  <2>1. stage[r] = "incr" /\ verdict'[r] = "none"
    BY <1>6 DEF Incr, TypeOK, TimeInv
  <2>2. CounterOf(r) = b /\ count'[r] <= Limit(caller[r]) /\ r \notin late'
    BY <1>0, <1>6, <2>1 DEF Given
  <2>3. count'[r] = counter[b] + 1 /\ ~(now > asked[r] + Window)
    BY <1>6, <2>2 DEF Incr, TypeOK
  <2>4. QED
    BY <2>2, <2>3 DEF TypeOK
<1>7. QED
  <2>1. ASSUME NEW r \in Request, Check(r) \/ Abort(r), r \notin Given(b)' \/ r \in Given(b)
        PROVE  Given(b)' \subseteq Given(b)
    BY <1>2, <2>1
  <2>2. QED
    BY <1>1, <1>2, <1>3, <1>4, <1>5, <1>6, <2>1 DEF Next, Check

\* Only Redis itself drops a key while a request of its window may be counted
\* in time.
LEMMA KeyStays ==
  ASSUME TypeOK, TimeInv, [Next]_vars, NEW b \in Bucket, now' < Window * b[2] + 2 * Window
  PROVE  /\ now <= now'
         /\ counter[b] <= counter'[b] \/ lost'[b] = lost[b] + 1
<1>1. CASE UNCHANGED vars
  BY <1>1 DEF vars, TypeOK
<1>2. CASE Tick
  <2>1. /\ now \in Nat /\ now' = now + 1 /\ now < Horizon
        /\ expiry[b] \in Nat /\ counter[b] \in Nat /\ Horizon \in Nat
    BY <1>2 DEF Tick, TypeOK, Forever
  <2>2. /\ Window * b[2] \in Nat
        /\ Window * b[2] + 2 * Window <= expiry[b] \/ expiry[b] = Horizon + 1
    BY SlotTypes DEF TimeInv, Forever
  <2>3. ~(expiry[b] <= now + 1)
    BY <2>1, <2>2
  <2>4. counter'[b] = counter[b]
    BY <1>2, <2>3 DEF Tick
  <2>5. QED
    BY <2>1, <2>4
<1>3. CASE LoseKeys
  <2>1. now' = now /\ now \in Nat /\ counter[b] \in Nat
    BY <1>3 DEF LoseKeys, TypeOK
  <2>2. counter'[b] = counter[b] \/ lost'[b] = lost[b] + 1
    BY <1>3 DEF LoseKeys
  <2>3. QED
    BY <2>1, <2>2
<1>4. ASSUME NEW r \in Request, Check(r) \/ Abort(r)
      PROVE  now <= now' /\ counter[b] <= counter'[b]
  <2>1. now' = now /\ now \in Nat /\ counter[b] \in Nat
    <3>1. now' = now
      BY <1>4, Others
    <3>2. QED
      BY <3>1 DEF TypeOK
  <2>2. ASSUME NEW c \in Bucket, Counted(c)
        PROVE  counter[b] <= counter'[b]
    BY <2>2 DEF Counted, TypeOK
  <2>3. counter' = counter \/ Counted(CounterOf(r))
    BY <1>4 DEF Check, PassUnlimited, AskClock, Incr, SetTtl, Decide, RedisFails, Abort
  <2>4. QED
    BY <2>1, <2>2, <2>3, CounterHome
<1>5. QED
  BY <1>1, <1>2, <1>3, <1>4 DEF Next

\* Losses are never forgotten.
LEMMA LossesStay ==
  ASSUME TypeOK, [Next]_vars, NEW b \in Bucket
  PROVE  lost'[b] \in {lost[b], lost[b] + 1}
<1>1. ASSUME NEW r \in Request, Check(r) \/ Abort(r) PROVE lost' = lost
  BY <1>1, Others
<1>2. CASE LoseKeys
  BY <1>2 DEF LoseKeys, TypeOK
<1>3. QED
  BY <1>1, <1>2 DEF Next, Tick, vars

\* What a loss adds to the budget.
LEMMA AnotherLimit ==
  ASSUME NEW l \in Nat, NEW k \in Nat
  PROVE  l * k \in Nat /\ l * (k + 1) \in Nat /\ l * (k + 1) = l * k + l /\ l * (k + 2) = l * k + 2 * l
  OBVIOUS

LEMMA BudgetStep ==
  ASSUME TypeOK, TimeInv, BudgetInv, [Next]_vars
  PROVE  BudgetInv'
<1> SUFFICES ASSUME NEW b \in Bucket
             PROVE  /\ Cardinality(Given(b)') <= LimitOf(b[1]) * (lost'[b] + 1)
                    /\ now' < Window * b[2] + 2 * Window =>
                         Cardinality(Given(b)') <= counter'[b] + LimitOf(b[1]) * lost'[b]
  BY DEF BudgetInv
<1>1. PICK m \in Nat, n \in Nat : m = Cardinality(Given(b)) /\ n = Cardinality(Given(b)')
  BY GivenIsFinite
<1>2. /\ counter[b] \in Nat /\ counter'[b] \in Nat
      /\ now \in Nat /\ now' \in Nat /\ lost[b] \in Nat
  <2>1. TypeOK'
    BY TimeStep
  <2>2. QED
    BY <2>1 DEF TypeOK
<1>3. PICK l \in Nat : l = LimitOf(b[1])
  BY DEF LimitOf
<1>4. PICK e \in Nat : e = Window * b[2] + 2 * Window
  <2>1. Window * b[2] \in Nat
    BY SlotTypes
  <2>2. QED
    BY <2>1
\* p and q: the budget of the losses so far, and after the step.
<1>5. PICK p \in Nat, q \in Nat :
        /\ p = l * lost[b] /\ q = l * lost'[b]
        /\ l * (lost[b] + 1) = p + l /\ l * (lost'[b] + 1) = q + l
        /\ p <= q /\ (lost'[b] = lost[b] => q = p) /\ (lost'[b] = lost[b] + 1 => q = p + l)
  <2>1. PICK k \in Nat, j \in Nat : k = lost[b] /\ j = lost'[b] /\ j \in {k, k + 1}
    BY <1>2, LossesStay
  <2>2. PICK p \in Nat, q \in Nat : p = l * k /\ q = l * j
    BY AnotherLimit
  <2>3. l * (k + 1) = p + l /\ l * (j + 1) = q + l
    BY <2>2, AnotherLimit
  <2>4. (j = k => q = p) /\ (j = k + 1 => q = p + l)
    BY <2>2, <2>3
  <2>5. p <= q
    BY <2>1, <2>4
  <2>6. QED
    BY <2>1, <2>2, <2>3, <2>4, <2>5
<1>6. m <= p + l /\ (now < e => m <= counter[b] + p)
  BY <1>1, <1>3, <1>4, <1>5 DEF BudgetInv
<1>7. now' < e => now <= now' /\ (counter[b] <= counter'[b] \/ q = p + l)
  BY <1>4, <1>5, KeyStays
<1>8. CASE Given(b)' \subseteq Given(b)
  <2>1. n <= m
    BY <1>1, <1>8, GivenIsFinite, FS_Subset
  <2>2. n <= q + l
    BY <1>5, <1>6, <2>1
  <2>3. now' < e => n <= counter'[b] + q
    <3>1. p <= q
      BY <1>5
    <3>2. ASSUME now' < e PROVE now < e
      BY <1>2, <1>7, <3>2
    <3>3. QED
      BY <1>2, <1>6, <1>7, <2>1, <3>1, <3>2
  <2>4. QED
    BY <1>1, <1>3, <1>4, <1>5, <2>2, <2>3
<1>9. ASSUME NEW r \in Request,
             Incr(r), CounterOf(r) = b, now <= asked[r] + Window,
             counter[b] + 1 <= Limit(caller[r]),
             Given(b)' \subseteq Given(b) \cup {r}
      PROVE  n <= q + l /\ n <= counter'[b] + q
  <2>1. now < e
    <3>1. CounterOf(r) = <<Origin(r), Slot(r)>> /\ asked[r] < Window * Slot(r) + Window
      BY CounterHome
    <3>2. b[2] = Slot(r)
      BY <1>9, <3>1
    <3>3. asked[r] \in Nat
      BY DEF TypeOK
    <3>4. Window * b[2] \in Nat
      BY SlotTypes
    <3>5. QED
      BY <1>2, <1>4, <1>9, <3>1, <3>2, <3>3, <3>4
  <2>2. n <= m + 1
    <3>1. /\ IsFiniteSet(Given(b) \cup {r})
          /\ Cardinality(Given(b) \cup {r}) \in {m, m + 1}
      BY <1>1, GivenIsFinite, FS_AddElement
    <3>2. n <= Cardinality(Given(b) \cup {r})
      BY <1>1, <1>9, <3>1, FS_Subset
    <3>3. QED
      BY <3>1, <3>2
  <2>3. counter'[b] = counter[b] + 1
    BY <1>9 DEF Incr, Counted, TypeOK
  <2>4. q = p
    <3>1. lost' = lost
      BY <1>9 DEF Incr
    <3>2. QED
      BY <1>5, <3>1
  <2>5. counter[b] + 1 <= l
    <3>1. b[1] = Origin(r)
      BY <1>9, CounterHome
    <3>2. Limit(caller[r]) = l
      BY <1>3, <3>1, OneLimit DEF TypeOK
    <3>3. QED
      BY <1>9, <3>2
  <2>6. QED
    BY <1>2, <1>6, <2>1, <2>2, <2>3, <2>4, <2>5
<1>10. QED
  <2>1. n <= q + l /\ (now' < e => n <= counter'[b] + q) => 
          /\ Cardinality(Given(b)') <= LimitOf(b[1]) * (lost'[b] + 1)
          /\ now' < Window * b[2] + 2 * Window =>
               Cardinality(Given(b)') <= counter'[b] + LimitOf(b[1]) * lost'[b]
    BY <1>1, <1>3, <1>4, <1>5
  <2>2. QED
    BY <1>8, <1>9, <2>1, Joining
-----------------------------------------------------------------------------
(* Retry-After.                                                            *)

\* A refusal tells the client to wait for the start of a window.
WaitInv ==
  \A r \in Request : verdict[r] = "refuse" => \E k \in Nat : until[r] = Window * k

LEMMA WaitStep ==
  ASSUME TypeOK, WaitInv, [Next]_vars
  PROVE  WaitInv'
<1>1. CASE UNCHANGED <<verdict, until>>
  BY <1>1 DEF WaitInv
<1>2. ASSUME NEW r \in Request, Check(r) \/ Abort(r)
      PROVE  WaitInv'
  <2>1. ASSUME NEW q \in Request \ {r}
        PROVE  verdict'[q] = verdict[q] /\ until'[q] = until[q]
    BY <1>2, <2>1, Others
  <2>2. CASE Decide(r)
    <3>1. now \in Nat /\ now \div Window + 1 \in Nat
      <4>1. now \in Nat
        BY DEF TypeOK
      <4>2. now \div Window \in Nat
        BY <4>1, Windows
      <4>3. QED
        BY <4>1, <4>2
    <3>2. now + Reset = Window * (now \div Window + 1)
      BY <3>1, NextWindow
    <3>3. PICK w : w = now + Reset
      OBVIOUS
    <3>4. verdict'[r] = "refuse" => until'[r] = w
      BY <2>2, <3>3 DEF Decide, TypeOK
    <3>5. PICK k \in Nat : w = Window * k
      BY <3>1, <3>2, <3>3
    <3>6. QED
      BY <2>1, <3>4, <3>5 DEF WaitInv
  <2>3. CASE ~Decide(r)
    <3>1. verdict'[r] = "refuse" => verdict[r] = "refuse" /\ until'[r] = until[r]
      BY <1>2, <2>3 DEF TypeOK, Check, PassUnlimited, AskClock, Incr, SetTtl, RedisFails, Abort
    <3>2. QED
      BY <2>1, <3>1 DEF WaitInv
  <2>4. QED
    BY <2>2, <2>3
<1>3. QED
  BY <1>1, <1>2 DEF Next, vars, Tick, LoseKeys
-----------------------------------------------------------------------------
LimiterInv == TypeOK /\ TimeInv /\ EarnInv /\ BudgetInv /\ WaitInv

LEMMA LimiterInit == Init => LimiterInv
<1> SUFFICES ASSUME Init PROVE LimiterInv
  OBVIOUS
<1>1. EarnInv
  <2>1. \A b : Cardinality(Past(b)) \in Nat
    BY PastIsFinite
  <2>2. QED
    BY <2>1 DEF Init, EarnInv
<1>2. ASSUME NEW b \in Bucket
      PROVE  /\ Cardinality(Given(b)) <= LimitOf(b[1]) * (lost[b] + 1)
             /\ Cardinality(Given(b)) <= counter[b] + LimitOf(b[1]) * lost[b]
  <2>1. Cardinality(Given(b)) = 0
    <3>1. Given(b) = {}
      BY DEF Init, Given
    <3>2. QED
      BY <3>1, FS_EmptySet
  <2>2. lost[b] = 0 /\ counter[b] = 0 /\ LimitOf(b[1]) \in Nat
    BY DEF Init, LimitOf
  <2>3. QED
    BY <2>1, <2>2
<1>3. WaitInv
  BY DEF Init, WaitInv
<1>4. QED
  BY <1>1, <1>2, <1>3, TimeInit DEF LimiterInv, BudgetInv

LEMMA Limiter == Spec => []LimiterInv
<1>1. LimiterInv /\ [Next]_vars => LimiterInv'
  BY TimeStep, EarnStep, BudgetStep, WaitStep DEF LimiterInv
<1>2. QED
  BY <1>1, LimiterInit, PTL DEF Spec

\* ratelimit.py:231: the TTL of two windows keeps the counter for as long as
\* a request of its window may still be counted, so whatever the order in
\* which requests ask the clock, count, set the TTL and fail, no more of one
\* caller's are admitted in a window than its limit, and as many again for
\* each time Redis has lost the counter.
THEOREM BudgetIsKept == Spec => []WithinBudget
<1>1. LimiterInv => WithinBudget
  <2> SUFFICES ASSUME LimiterInv, NEW r \in Request
               PROVE  Cardinality({q \in Fellows(r) : verdict[q] = "admit" /\ q \notin late})
                        <= Limit(caller[r]) * (lost[<<Origin(r), Slot(r)>>] + 1)
    BY DEF WithinBudget
  <2> DEFINE admitted == {q \in Fellows(r) : verdict[q] = "admit" /\ q \notin late}
  <2>1. PICK b \in Bucket : b = CounterOf(r) /\ b = <<Origin(r), Slot(r)>>
    BY CounterHome DEF LimiterInv
  <2>2. \A q \in Fellows(r) : q \in Request /\ CounterOf(q) = b
    BY <2>1, CounterHome DEF LimiterInv, Fellows
  <2>3. admitted \subseteq Given(b)
    BY <2>2 DEF Given
  <2>4. Cardinality(admitted) <= Cardinality(Given(b)) /\ Cardinality(admitted) \in Nat
    BY <2>3, GivenIsFinite, FS_Subset, FS_CardinalityType
  <2>5. Limit(caller[r]) = LimitOf(b[1]) /\ Limit(caller[r]) \in Nat
    <3>1. b[1] = Origin(r)
      BY <2>1
    <3>2. caller \in [Request -> Caller]
      BY DEF LimiterInv, TypeOK
    <3>3. QED
      BY <3>1, <3>2, OneLimit
  <2>6. PICK budget \in Nat :
          budget = LimitOf(b[1]) * (lost[b] + 1) /\ Cardinality(Given(b)) <= budget
    <3>1. lost[b] \in Nat
      BY DEF LimiterInv, TypeOK
    <3>2. LimitOf(b[1]) * (lost[b] + 1) \in Nat
      BY <2>5, <3>1, AnotherLimit
    <3>3. QED
      BY <3>2 DEF LimiterInv, BudgetInv
  <2> HIDE DEF admitted
  <2>7. Cardinality(admitted) <= budget
    BY <2>4, <2>6, GivenIsFinite
  <2>8. QED
    BY <2>1, <2>5, <2>6, <2>7 DEF admitted
<1>2. QED
  BY <1>1, Limiter, PTL

\* A refusal comes of the caller's own requests in the window alone.
LEMMA Earned ==
  ASSUME LimiterInv, NEW r \in Request, verdict[r] = "refuse"
  PROVE  \E P \in SUBSET (Fellows(r) \ {r}) :
           /\ \A p \in P : stage[p] # "new"
           /\ IsFiniteSet(P) /\ Cardinality(P) >= Limit(caller[r])
<1>1. PICK b \in Bucket : b = CounterOf(r)
  BY CounterHome DEF LimiterInv
<1>2. Limit(caller[r]) < Cardinality(Past(b)) /\ Limit(caller[r]) \in Nat
  BY <1>1, OneLimit DEF LimiterInv, EarnInv, TypeOK
<1>3. PICK P : P = Past(b) \ {r}
  OBVIOUS
<1>4. P \subseteq Fellows(r) \ {r} /\ \A p \in P : stage[p] # "new"
  BY <1>1, <1>3, CounterHome DEF LimiterInv, Past, Fellows
<1>5. IsFiniteSet(P) /\ Cardinality(P) >= Limit(caller[r])
  <2>1. IsFiniteSet(P) /\ Cardinality(P) \in {Cardinality(Past(b)), Cardinality(Past(b)) - 1}
    BY <1>3, PastIsFinite, FS_RemoveElement
  <2>2. QED
    BY <1>2, <2>1, PastIsFinite
<1>6. QED
  BY <1>4, <1>5

LEMMA Enough ==
  ASSUME NEW S \in SUBSET Request, NEW P \in SUBSET S, NEW l \in Nat,
         IsFiniteSet(P), Cardinality(P) >= l
  PROVE  Cardinality(S) >= l
<1>1. IsFiniteSet(S) /\ Cardinality(P) <= Cardinality(S)
  BY FS_Subset
<1>2. Cardinality(S) \in Nat /\ Cardinality(P) \in Nat
  BY <1>1, FS_CardinalityType
<1>3. QED
  BY <1>1, <1>2

\* ratelimit.py:147, 226: nobody is refused for what another caller sent, nor
\* for an earlier window.
THEOREM RefusalsAreEarned == Spec => []RefusalIsEarned
<1>1. LimiterInv => RefusalIsEarned
  <2> SUFFICES ASSUME LimiterInv, NEW r \in Request, verdict[r] = "refuse"
               PROVE  Cardinality({q \in Fellows(r) \ {r} : stage[q] # "new"}) >= Limit(caller[r])
    BY DEF RefusalIsEarned
  <2>1. PICK P \in SUBSET (Fellows(r) \ {r}) :
           /\ \A p \in P : stage[p] # "new"
           /\ IsFiniteSet(P) /\ Cardinality(P) >= Limit(caller[r])
    BY Earned
  <2>2. PICK S : S = {q \in Fellows(r) \ {r} : stage[q] # "new"}
    OBVIOUS
  <2>3. S \subseteq Request /\ P \subseteq S
    BY <2>1, <2>2 DEF Fellows
  <2>4. Limit(caller[r]) \in Nat
    BY OneLimit DEF LimiterInv, TypeOK
  <2>5. QED
    BY <2>1, <2>2, <2>3, <2>4, Enough
<1>2. QED
  BY <1>1, Limiter, PTL

\* ratelimit.py:76, 233: who waits as long as Retry-After says starts afresh.
THEOREM WaitingPays == Spec => []WaitingHelps
<1>1. LimiterInv => WaitingHelps
  <2> SUFFICES ASSUME LimiterInv, NEW r \in Request, NEW q \in Request,
                      verdict[r] = "refuse", verdict[q] = "refuse", asked[q] >= until[r]
               PROVE  Cardinality({p \in Fellows(q) \ {q} :
                                      stage[p] # "new" /\ asked[p] >= until[r]})
                        >= Limit(caller[q])
    BY DEF WaitingHelps
  <2>1. PICK P \in SUBSET (Fellows(q) \ {q}) :
           /\ \A p \in P : stage[p] # "new"
           /\ IsFiniteSet(P) /\ Cardinality(P) >= Limit(caller[q])
    BY Earned
  <2>2. PICK k \in Nat : until[r] = Window * k
    BY DEF LimiterInv, WaitInv
  <2>3. ASSUME NEW p \in Fellows(q)
        PROVE  asked[p] >= until[r]
    <3>1. p \in Request /\ Slot(p) = Slot(q)
      BY DEF Fellows
    <3>2. asked[p] \in Nat /\ asked[q] \in Nat
      BY <3>1 DEF LimiterInv, TypeOK
    <3>3. asked[q] \div Window >= k
      BY <2>2, <3>2, SlotOf
    <3>4. asked[p] \div Window >= k
      BY <3>1, <3>3 DEF Slot
    <3>5. QED
      BY <2>2, <3>2, <3>4, SlotOf
  <2>4. PICK S : S = {p \in Fellows(q) \ {q} : stage[p] # "new" /\ asked[p] >= until[r]}
    OBVIOUS
  <2>5. S \subseteq Request /\ P \subseteq S
    BY <2>1, <2>3, <2>4 DEF Fellows
  <2>6. Limit(caller[q]) \in Nat
    BY OneLimit DEF LimiterInv, TypeOK
  <2>7. QED
    BY <2>1, <2>4, <2>5, <2>6, Enough
<1>2. QED
  BY <1>1, Limiter, PTL
=============================================================================
