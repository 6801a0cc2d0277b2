---------------------------- MODULE HttpProofs ----------------------------
(***************************************************************************)
(* Proofs about IdempotentPost and HttpCaching for any number of attempts, *)
(* every combination of faults and every max-age.                          *)
(***************************************************************************)
EXTENDS HttpCaching, TLAPS

USE ConstantsAssumption, NoResponseAssumption, MaxAgeAssumption
USE DEF Goto, Answer, history

\* An attempt that is still to be handled has neither answered nor written;
\* one that is to be stored has an answer of its own.
AttemptsInOrder ==
  \A a \in Attempt :
    /\ pc[a] \in {"new", "handle"} => answer[a] = NoResponse /\ a \notin writes
    /\ pc[a] = "new" => earlier[a] = {}
    /\ pc[a] = "store" => answer[a] # NoResponse /\ answer[a].from = a /\ answer[a].code < 500

\* What a response claims of the attempt that it comes from, which has been
\* handled and so writes no more.
True(response) ==
  /\ pc[response.from] \in {"store", "done"}
  /\ response.code = 201 => response.from \in writes
  /\ response.code \in {409, 429} => response.from \notin writes

ResponsesAreTrue ==
  /\ cache # NoResponse => True(cache) /\ cache.code < 500
  /\ \A a \in Attempt : answer[a] # NoResponse =>
       True(answer[a]) /\ (answer[a].code = 500 => answer[a].from = a)

ReplayInv == TypeOK /\ AttemptsInOrder /\ ResponsesAreTrue

LEMMA ReplayInit == Init => ReplayInv
<1> SUFFICES ASSUME Init PROVE ReplayInv
  OBVIOUS
<1>1. TypeOK
  BY DEF Init, TypeOK
<1>2. AttemptsInOrder /\ ResponsesAreTrue
  BY DEF Init, AttemptsInOrder, ResponsesAreTrue
<1>3. QED
  BY <1>1, <1>2 DEF ReplayInv

\* The handler answers for itself.
LEMMA RespondKeeps ==
  ASSUME ReplayInv, NEW a \in Attempt, NEW code \in Code, pc[a] = "handle", Respond(a, code),
         writes' = writes \/ writes' = writes \cup {a},
         code = 201 => a \in writes', code \in {409, 429} => a \notin writes',
         UNCHANGED <<cache, history>>
  PROVE  ReplayInv'
<1> DEFINE own == [code |-> code, from |-> a]
<1>1. own \in Response /\ own # NoResponse /\ own.from = a /\ own.code = code
  BY DEF Response
<1>2. /\ answer'[a] = own
      /\ pc'[a] = IF code < 500 THEN "store" ELSE "done"
      /\ \A b \in Attempt \ {a} : answer'[b] = answer[b] /\ pc'[b] = pc[b]
  BY DEF Respond, Storable, ReplayInv, TypeOK
<1> HIDE DEF own
<1>3. TypeOK'
  BY <1>1 DEF Respond, Storable, ReplayInv, TypeOK, own
<1>4. AttemptsInOrder'
  BY <1>1, <1>2 DEF ReplayInv, AttemptsInOrder
<1>5. \A r \in Response : True(r) => r.from # a /\ True(r)'
  <2>1. \A r \in Response : True(r) => r.from \in Attempt \ {a}
    BY DEF True, Response
  <2>2. QED
    BY <1>2, <2>1 DEF True
<1>6. pc'[own.from] \in {"store", "done"}
  BY <1>1, <1>2
<1>7. ResponsesAreTrue'
  <2>1. cache' # NoResponse => True(cache)' /\ cache'.code < 500
    BY <1>5 DEF ReplayInv, TypeOK, ResponsesAreTrue, True
  <2>2. ASSUME NEW b \in Attempt, answer'[b] # NoResponse
        PROVE  True(answer[b])' /\ (answer'[b].code = 500 => answer'[b].from = b)
    <3>1. CASE b = a
      BY <1>1, <1>2, <1>6, <3>1 DEF True
    <3>2. CASE b # a
      BY <1>2, <1>5, <2>2, <3>2 DEF ReplayInv, TypeOK, ResponsesAreTrue, True
    <3>3. QED
      BY <3>1, <3>2
  <2>3. QED
    BY <2>1, <2>2 DEF ResponsesAreTrue
<1>8. QED
  BY <1>3, <1>4, <1>7 DEF ReplayInv

\* A step after which the same writes are there, no attempt is handled again
\* and every response was one before.
LEMMA QuietKeeps ==
  ASSUME ReplayInv, TypeOK', AttemptsInOrder', UNCHANGED writes,
         \A a \in Attempt : pc[a] \in {"store", "done"} => pc'[a] \in {"store", "done"},
         cache' # NoResponse =>
           /\ cache' = cache \/ \E a \in Attempt : cache' = answer[a]
           /\ cache'.code < 500,
         \A a \in Attempt : answer'[a] \in {answer[a], NoResponse} \/ answer'[a] = cache
  PROVE  ReplayInv'
<1>1. \A r \in Response : True(r) => True(r)'
  BY DEF True, Response
<1>2. cache' # NoResponse => True(cache)' /\ cache'.code < 500
  BY <1>1 DEF ReplayInv, TypeOK, ResponsesAreTrue, True
<1>3. ASSUME NEW a \in Attempt, answer'[a] # NoResponse
      PROVE  True(answer[a])' /\ (answer'[a].code = 500 => answer'[a].from = a)
  BY <1>1, <1>3 DEF ReplayInv, TypeOK, ResponsesAreTrue, True
<1>4. QED
  BY <1>2, <1>3 DEF ReplayInv, ResponsesAreTrue

LEMMA ReplayStep == ReplayInv /\ [Next]_vars => ReplayInv'
<1> SUFFICES ASSUME ReplayInv, [Next]_vars PROVE ReplayInv'
  OBVIOUS
<1> USE DEF TypeOK, AttemptsInOrder
<1>t. TypeOK /\ AttemptsInOrder
  BY DEF ReplayInv
<1>1. CASE UNCHANGED vars
  BY <1>1, <1>t, QuietKeeps DEF vars, ReplayInv, ResponsesAreTrue
<1>2. ASSUME NEW a \in Attempt, Replay(a) PROVE ReplayInv'
  <2>1. TypeOK' /\ AttemptsInOrder'
    BY <1>2, <1>t DEF Replay, Hit, Begin
  <2>2. QED
    BY <1>2, <1>t, <2>1, QuietKeeps DEF Replay, ReplayInv, ResponsesAreTrue
<1>3. ASSUME NEW a \in Attempt, Miss(a) \/ LookupFails(a) PROVE ReplayInv'
  <2>1. TypeOK' /\ AttemptsInOrder'
    <3>1. forgotten' \subseteq {"failure", "loss"}
      BY <1>3, <1>t DEF Miss, LookupFails, Begin, Forget
    <3>2. TypeOK'
      BY <1>3, <1>t, <3>1 DEF Miss, LookupFails, Begin
    <3>3. AttemptsInOrder'
      BY <1>3, <1>t DEF Miss, LookupFails, Begin
    <3>4. QED
      BY <3>2, <3>3
  <2>2. QED
    BY <1>3, <1>t, <2>1, QuietKeeps DEF Miss, LookupFails, ReplayInv, ResponsesAreTrue
<1>4. ASSUME NEW a \in Attempt, Refuse(a) \/ Write(a) \/ HandlerFails(a) PROVE ReplayInv'
  BY <1>4, <1>t, RespondKeeps DEF Refuse, Write, HandlerFails, Code
<1>5. ASSUME NEW a \in Attempt, Store(a) \/ StoreFails(a) PROVE ReplayInv'
  <2>1. forgotten' \subseteq {"failure", "loss"}
    BY <1>5, <1>t, ZenonT(30) DEF Store, StoreFails, Forget
  <2>2. TypeOK' /\ AttemptsInOrder'
    BY <1>5, <1>t, <2>1 DEF Store, StoreFails, Kept
  <2>3. cache' = cache \/ (cache' = answer[a] /\ answer[a].code < 500)
    BY <1>5, <1>t DEF Store, StoreFails, Kept
  <2>4. QED
    BY <1>5, <1>t, <2>2, <2>3, QuietKeeps DEF Store, StoreFails, ReplayInv, ResponsesAreTrue
<1>6. ASSUME NEW a \in Attempt, Crash(a) PROVE ReplayInv'
  <2>1. TypeOK' /\ AttemptsInOrder'
    BY <1>6, <1>t DEF Crash
  <2>2. QED
    BY <1>6, <1>t, <2>1, QuietKeeps DEF Crash, ReplayInv, ResponsesAreTrue
<1>7. CASE Expire
  <2>1. TypeOK' /\ AttemptsInOrder'
    BY <1>7, <1>t DEF Expire, Forget
  <2>2. QED
    BY <1>7, <1>t, <2>1, QuietKeeps DEF Expire
<1>8. QED
  BY <1>1, <1>2, <1>3, <1>4, <1>5, <1>6, <1>7 DEF Next

LEMMA Replays == Spec => []ReplayInv
  BY ReplayInit, ReplayStep, PTL DEF Spec

\* main.py, idempotency.py: whatever fails and however attempts overlap, what
\* is answered from the cache is what the handler of its attempt did.
THEOREM ReplaysAreTrue == Spec => []ReplayIsTrue
<1>1. ReplayInv => ReplayIsTrue
  BY DEF ReplayInv, ResponsesAreTrue, True, ReplayIsTrue
<1>2. QED
  BY <1>1, Replays, PTL
-----------------------------------------------------------------------------
\* While Redis works and keeps the key, an answer below 500 is in the cache
\* before the client has it; so whoever begins afterwards finds a response,
\* replays it and ends without a write.
AnswersAreStored ==
  /\ \A a \in Attempt :
       forgotten = {} /\ pc[a] = "done" /\ answer[a] # NoResponse /\ answer[a].code < 500 =>
         cache # NoResponse
  /\ \A a \in Attempt : \A b \in earlier[a] :
       /\ pc[b] = "done" /\ answer[b] # NoResponse
       /\ forgotten = {} /\ answer[b].code < 500 => pc[a] = "done" /\ a \notin writes

OnceInv == ReplayInv /\ AnswersAreStored

\* A step of one attempt that records nobody new as answered before it.
LEMMA StoredElsewhere ==
  ASSUME OnceInv, ReplayInv', NEW a \in Attempt, pc[a] # "done",
         UNCHANGED earlier, forgotten \subseteq forgotten',
         cache # NoResponse => cache' # NoResponse,
         writes' \in {writes, writes \cup {a}},
         \A b \in Attempt \ {a} : pc'[b] = pc[b] /\ answer'[b] = answer[b],
         forgotten' = {} /\ pc'[a] = "done" /\ answer'[a] # NoResponse /\ answer'[a].code < 500 =>
           cache' # NoResponse
  PROVE  OnceInv'
<1>1. \A c \in Attempt : \A b \in earlier[c] : b \in Attempt \ {a}
  BY DEF OnceInv, ReplayInv, TypeOK, AnswersAreStored
<1>2. forgotten' = {} => forgotten = {}
  OBVIOUS
<1>3. ASSUME NEW c \in Attempt, NEW b \in earlier[c]
      PROVE  /\ pc'[b] = "done" /\ answer'[b] # NoResponse
             /\ forgotten' = {} /\ answer'[b].code < 500 => pc'[c] = "done" /\ c \notin writes'
  <2>1. /\ pc[b] = "done" /\ answer[b] # NoResponse
        /\ pc'[b] = "done" /\ answer'[b] = answer[b]
    BY <1>1 DEF OnceInv, AnswersAreStored
  <2>2. ASSUME forgotten' = {}, answer'[b].code < 500
        PROVE  pc'[c] = "done" /\ c \notin writes'
    <3>1. pc[c] = "done" /\ c \notin writes
      BY <1>2, <2>1, <2>2 DEF OnceInv, AnswersAreStored
    <3>2. c # a
      BY <3>1
    <3>3. QED
      BY <3>1, <3>2
  <2>3. QED
    BY <2>1, <2>2
<1>4. \A b \in Attempt :
        forgotten' = {} /\ pc'[b] = "done" /\ answer'[b] # NoResponse /\ answer'[b].code < 500 =>
          cache' # NoResponse
  BY <1>2 DEF OnceInv, AnswersAreStored
<1>5. AnswersAreStored'
  BY <1>3, <1>4 DEF AnswersAreStored
<1>6. QED
  BY <1>5 DEF OnceInv

\* An attempt that begins runs its handler only if no answer below 500 has
\* been given, or Redis has failed.
LEMMA StoredBegin ==
  ASSUME OnceInv, ReplayInv', NEW a \in Attempt, pc[a] = "new", Begin(a),
         UNCHANGED <<cache, writes>>, forgotten \subseteq forgotten',
         \A b \in Attempt \ {a} : pc'[b] = pc[b] /\ answer'[b] = answer[b],
         \/ cache # NoResponse /\ pc'[a] = "done"
         \/ cache = NoResponse /\ pc'[a] = "handle"
         \/ forgotten' # {} /\ pc'[a] = "handle"
  PROVE  OnceInv'
<1>1. earlier \in [Attempt -> SUBSET Attempt] /\ a \notin writes
  BY DEF OnceInv, ReplayInv, TypeOK, AttemptsInOrder
<1>2. \A b \in earlier'[a] : b \in Attempt \ {a} /\ pc[b] = "done" /\ answer[b] # NoResponse
  BY <1>1 DEF Begin
<1>3. \A c \in Attempt \ {a} : earlier'[c] = earlier[c]
  BY <1>1 DEF Begin
<1>4. \A c \in Attempt \ {a} : \A b \in earlier[c] : b \in Attempt \ {a}
  BY <1>1 DEF OnceInv, AnswersAreStored
<1>5. forgotten' = {} => forgotten = {}
  OBVIOUS
<1>6. ASSUME NEW c \in Attempt, NEW b \in earlier'[c]
      PROVE  /\ pc'[b] = "done" /\ answer'[b] # NoResponse
             /\ forgotten' = {} /\ answer'[b].code < 500 => pc'[c] = "done" /\ c \notin writes'
  <2>1. CASE c = a
    <3>1. b \in Attempt /\ pc'[b] = "done" /\ answer'[b] = answer[b] /\ answer[b] # NoResponse
             /\ pc[b] = "done"
      BY <1>2, <2>1
    <3>2. forgotten' = {} /\ answer'[b].code < 500 => cache # NoResponse
      BY <1>5, <3>1 DEF OnceInv, AnswersAreStored
    <3>3. QED
      BY <1>1, <2>1, <3>1, <3>2
  <2>2. CASE c # a
    BY <1>3, <1>4, <1>5, <2>2 DEF OnceInv, AnswersAreStored
  <2>3. QED
    BY <2>1, <2>2
<1>7. \A b \in Attempt :
        forgotten' = {} /\ pc'[b] = "done" /\ answer'[b] # NoResponse /\ answer'[b].code < 500 =>
          cache' # NoResponse
  BY <1>5 DEF OnceInv, AnswersAreStored
<1>8. AnswersAreStored'
  BY <1>6, <1>7 DEF AnswersAreStored
<1>9. QED
  BY <1>8 DEF OnceInv

LEMMA OnceStep == OnceInv /\ [Next]_vars => OnceInv'
<1> SUFFICES ASSUME OnceInv, [Next]_vars PROVE OnceInv'
  OBVIOUS
<1>t. ReplayInv' /\ TypeOK /\ AttemptsInOrder
  BY ReplayStep DEF OnceInv, ReplayInv
<1>1. CASE UNCHANGED vars
  BY <1>1, <1>t DEF vars, OnceInv, AnswersAreStored
<1>2. ASSUME NEW a \in Attempt, Replay(a) PROVE OnceInv'
  BY <1>2, <1>t, StoredBegin DEF Replay, Hit, TypeOK
<1>3. ASSUME NEW a \in Attempt, Miss(a) PROVE OnceInv'
  BY <1>3, <1>t, StoredBegin DEF Miss, Hit, TypeOK
<1>4. ASSUME NEW a \in Attempt, LookupFails(a) PROVE OnceInv'
  BY <1>4, <1>t, StoredBegin DEF LookupFails, TypeOK, Forget
<1>5. ASSUME NEW a \in Attempt, Refuse(a) \/ Write(a) \/ HandlerFails(a) PROVE OnceInv'
  <2>1. PICK code \in Code : pc[a] = "handle" /\ Respond(a, code)
    BY <1>5 DEF Refuse, Write, HandlerFails, Code
  <2>2. /\ \A b \in Attempt \ {a} : pc'[b] = pc[b] /\ answer'[b] = answer[b]
        /\ pc'[a] = "done" => ~(answer'[a].code < 500)
    BY <1>t, <2>1 DEF Respond, Storable, TypeOK
  <2>3. /\ writes' \in {writes, writes \cup {a}}
        /\ UNCHANGED <<cache, earlier, forgotten>>
    BY <1>5 DEF Refuse, Write, HandlerFails
  <2>4. QED
    BY <1>t, <2>1, <2>2, <2>3, StoredElsewhere
<1>6. ASSUME NEW a \in Attempt, Store(a) PROVE OnceInv'
  <2>1. cache' # NoResponse
    BY <1>6, <1>t DEF Store, Kept, AttemptsInOrder
  <2>2. QED
    BY <1>6, <1>t, <2>1, StoredElsewhere DEF Store, TypeOK
<1>7. ASSUME NEW a \in Attempt, StoreFails(a) PROVE OnceInv'
  <2>1. cache # NoResponse => cache' # NoResponse
    BY <1>7 DEF StoreFails, Kept
  <2>2. forgotten' # {}
    BY <1>7 DEF StoreFails, Forget
  <2>3. QED
    BY <1>7, <1>t, <2>1, <2>2, StoredElsewhere DEF StoreFails, TypeOK, Forget
<1>8. ASSUME NEW a \in Attempt, Crash(a) PROVE OnceInv'
  BY <1>8, <1>t, StoredElsewhere DEF Crash, TypeOK
<1>9. CASE Expire
  <2>1. forgotten' # {} /\ UNCHANGED <<pc, answer, writes, earlier>>
    BY <1>9 DEF Expire, Forget
  <2>2. QED
    BY <1>t, <2>1 DEF OnceInv, AnswersAreStored
<1>10. QED
  BY <1>1, <1>2, <1>3, <1>4, <1>5, <1>6, <1>7, <1>8, <1>9 DEF Next

\* idempotency.py:5, "the write happens at most once": an attempt that begins
\* after another was answered with success writes nothing, unless Redis failed
\* or lost the key.
THEOREM AcknowledgedWritesAreOnce == Spec => []AcknowledgedWriteIsOnce
<1>1. Init => OnceInv
  BY ReplayInit DEF Init, OnceInv, AnswersAreStored
<1>2. OnceInv => AcknowledgedWriteIsOnce
  BY DEF OnceInv, AnswersAreStored, AcknowledgedWriteIsOnce
<1>3. QED
  BY <1>1, <1>2, OnceStep, PTL DEF Spec

\* idempotency.py:4: as long as the key is not lost, all that is answered from
\* it is one response, however many handlers ran beside each other and whichever
\* calls to Redis failed.
THEOREM ReplaysAreAlike == Spec => []ReplaysAgree
<1>1. Init => ReplaysAgree
  BY DEF Init, ReplaysAgree
<1>2. ReplayInv /\ ReplaysAgree /\ [Next]_vars => ReplaysAgree'
  <2> SUFFICES ASSUME ReplayInv, ReplaysAgree, [Next]_vars PROVE ReplaysAgree'
    OBVIOUS
  <2>t. /\ answer \in [Attempt -> Response \cup {NoResponse}]
        /\ pc \in [Attempt -> {"new", "handle", "store", "done"}]
    BY DEF ReplayInv, TypeOK
  <2>1. CASE UNCHANGED vars
    BY <2>1 DEF vars, ReplaysAgree
  <2>2. ASSUME NEW a \in Attempt, Replay(a) PROVE ReplaysAgree'
    BY <2>2, <2>t DEF Replay, ReplaysAgree
  <2>3. ASSUME NEW a \in Attempt, Miss(a) \/ LookupFails(a) PROVE ReplaysAgree'
    BY <2>3 DEF Miss, LookupFails, Forget, ReplaysAgree
  <2>4. ASSUME NEW a \in Attempt, Refuse(a) \/ Write(a) \/ HandlerFails(a) PROVE ReplaysAgree'
    <3>1. /\ answer'[a].from = a /\ UNCHANGED <<cache, forgotten>>
          /\ \A b \in Attempt \ {a} : answer'[b] = answer[b]
      BY <2>4, <2>t DEF Refuse, Write, HandlerFails, Respond
    <3>2. QED
      BY <3>1 DEF ReplaysAgree
  <2>5. ASSUME NEW a \in Attempt, Store(a) \/ StoreFails(a) PROVE ReplaysAgree'
    <3>1. /\ UNCHANGED answer /\ forgotten \subseteq forgotten'
          /\ cache # NoResponse => cache' = cache
      BY <2>5 DEF Store, StoreFails, Kept, Forget
    <3>2. QED
      BY <3>1 DEF ReplaysAgree
  <2>6. ASSUME NEW a \in Attempt, Crash(a) PROVE ReplaysAgree'
    BY <2>6, <2>t DEF Crash, ReplaysAgree
  <2>7. CASE Expire
    BY <2>7 DEF Expire, Forget, ReplaysAgree
  <2>8. QED
    BY <2>1, <2>2, <2>3, <2>4, <2>5, <2>6, <2>7 DEF Next
<1>3. QED
  BY <1>1, <1>2, Replays, PTL DEF Spec
-----------------------------------------------------------------------------
\* Reads beside the writes leave the attempts as IdempotentPost has them.
THEOREM CachingKeepsPosts == AllSpec => Spec
<1>1. AllInit => Init
  BY DEF AllInit
<1>2. [AllNext]_allVars => [Next]_vars
  BY DEF AllNext, allVars, Posts, Get, Arrive, Evict, Tick
<1>3. QED
  BY <1>1, <1>2, PTL DEF AllSpec, Spec

\* A body lags behind the writes by no more than the age of its response.
RecentAt(body, age) ==
  /\ body \subseteq writes
  /\ \A a \in writes \ body : since[a] <= age

\* A full response is recent for its own age; a 304 is about the entry that
\* is still there, which was recent when the 304 was computed.
CacheInv ==
  /\ AllTypeOK
  /\ ~shared.private /\ (transit.private => ~transit.store)
  /\ \A a \in Attempt : a \notin writes => since[a] = 0
  /\ shared.kind = "full" => RecentAt(shared.body, shared.age)
  /\ transit.kind = "full" => RecentAt(transit.body, transit.age)
  /\ transit.kind = "304" => shared.kind = "full" /\ RecentAt(shared.body, transit.age)

\* One tick more keeps the order of two ages, up to the cap.
LEMMA OlderIsMonotone ==
  ASSUME NEW m \in Age, NEW n \in Age
  PROVE  Older(m) \in Age /\ (m <= n => Older(m) <= Older(n))
  BY DEF Older, Min2, Age

\* Whatever the attempts do, writes are only added.
LEMMA WritesGrow ==
  ASSUME TypeOK, [Next]_vars
  PROVE  writes \subseteq writes'
  BY DEF Next, vars, Replay, Miss, LookupFails, Refuse, Write, HandlerFails, Store, StoreFails,
         Crash, Expire

\* A write is new to the entries that lack it.
LEMMA PostsKeep ==
  ASSUME CacheInv, TypeOK', [Next]_vars, UNCHANGED cacheVars
  PROVE  CacheInv'
<1>1. writes \subseteq writes'
  BY WritesGrow DEF CacheInv, AllTypeOK
<1>2. \A a \in Attempt : since[a] \in Nat /\ (a \notin writes => since[a] = 0)
  BY DEF CacheInv, AllTypeOK, Age
<1>3. writes' \subseteq Attempt
  BY DEF TypeOK
<1>4. ASSUME NEW body, NEW age \in Age, RecentAt(body, age)
      PROVE  body \subseteq writes' /\ \A a \in writes' \ body : since[a] <= age
  BY <1>1, <1>2, <1>3, <1>4 DEF RecentAt, Age
<1>5. shared.age \in Age /\ transit.age \in Age
  BY DEF CacheInv, AllTypeOK, Entry
<1>6. UNCHANGED <<shared, transit, since>>
  BY DEF cacheVars
<1>7. AllTypeOK'
  BY <1>6 DEF CacheInv, AllTypeOK
<1>8. QED
  BY <1>4, <1>5, <1>6, <1>7 DEF CacheInv, RecentAt

LEMMA CacheStep == CacheInv /\ ReplayInv' /\ [AllNext]_allVars => CacheInv'
<1> SUFFICES ASSUME CacheInv, ReplayInv', [AllNext]_allVars PROVE CacheInv'
  OBVIOUS
<1>t. /\ TypeOK' /\ AllTypeOK /\ shared \in Entry /\ transit \in Entry
      /\ NoEntry \in Entry
  BY DEF ReplayInv, CacheInv, AllTypeOK, Entry, NoEntry, Age
<1>1. CASE UNCHANGED allVars \/ Posts
  <2>1. [Next]_vars /\ UNCHANGED cacheVars
    BY <1>1 DEF allVars, Posts
  <2>2. QED
    BY <1>t, <2>1, PostsKeep
<1>2. ASSUME NEW credential \in BOOLEAN, Get(credential) PROVE CacheInv'
  <2>1. UNCHANGED <<writes, shared, since, vars>>
    BY <1>2 DEF Get, vars
  <2>2. CASE ~credential /\ shared.kind = "full" /\ shared.body = writes
    <3>1. transit' = [NoEntry EXCEPT !.kind = "304"]
      BY <1>2, <2>2 DEF Get, ETag
    <3>2. transit' \in Entry
      BY <1>t, <3>1 DEF Entry
    <3>3. transit'.kind = "304" /\ ~transit'.private /\ transit'.age = 0
      BY <3>1 DEF NoEntry
    <3>4. QED
      BY <1>t, <2>1, <2>2, <3>2, <3>3 DEF CacheInv, AllTypeOK, RecentAt
  <2>3. CASE ~(~credential /\ shared.kind = "full" /\ shared.body = writes)
    <3>1. transit' = [kind |-> "full", body |-> writes, private |-> credential,
                      store |-> ~credential, age |-> 0]
      BY <1>2, <2>3 DEF Get, ETag, MayBeShared
    <3>2. transit' \in Entry
      BY <1>t, <2>1, <3>1 DEF Entry, Age, TypeOK
    <3>3. /\ transit'.kind = "full" /\ transit'.body = writes
          /\ transit'.private => ~transit'.store
      BY <3>1
    <3>4. QED
      BY <1>t, <2>1, <3>2, <3>3 DEF CacheInv, AllTypeOK, RecentAt
  <2>4. QED
    BY <2>2, <2>3
<1>3. CASE Arrive
  <2>1. transit' = NoEntry /\ UNCHANGED <<writes, since>> /\ transit # NoEntry
    BY <1>3 DEF Arrive, vars
  <2>2. CASE transit.kind = "304"
    <3>1. shared' = [shared EXCEPT !.age = transit.age]
      BY <1>3, <2>2 DEF Arrive
    <3>2. /\ shared' \in Entry /\ shared'.kind = shared.kind /\ shared'.body = shared.body
          /\ shared'.private = shared.private /\ shared'.age = transit.age
      BY <1>t, <3>1 DEF Entry
    <3>3. QED
      BY <1>t, <2>1, <2>2, <3>2 DEF CacheInv, AllTypeOK, RecentAt, NoEntry
  <2>3. CASE transit.kind # "304" /\ transit.store
    <3>1. shared' = transit
      BY <1>3, <2>3 DEF Arrive
    <3>2. QED
      BY <1>t, <2>1, <2>3, <3>1 DEF CacheInv, AllTypeOK, RecentAt, NoEntry
  <2>4. CASE transit.kind # "304" /\ ~transit.store
    <3>1. shared' = shared
      BY <1>3, <2>4 DEF Arrive
    <3>2. QED
      BY <1>t, <2>1, <2>4, <3>1 DEF CacheInv, AllTypeOK, RecentAt, NoEntry
  <2>5. QED
    BY <2>2, <2>3, <2>4
<1>4. CASE Evict
  BY <1>4, <1>t DEF Evict, vars, CacheInv, AllTypeOK, NoEntry
<1>5. CASE Tick
  <2>1. /\ \A a \in Attempt : since'[a] = IF a \in writes THEN Older(since[a]) ELSE 0
        /\ since' \in [Attempt -> Age] /\ writes' = writes
    <3>1. \A a \in Attempt : since[a] \in Age
      BY <1>t DEF AllTypeOK
    <3>2. 0 \in Age
      BY DEF Age
    <3>3. QED
      BY <1>5, <3>1, <3>2, OlderIsMonotone DEF Tick, vars
  <2>2. ASSUME NEW e \in Entry, NEW next, next = IF e = NoEntry THEN NoEntry ELSE [e EXCEPT !.age = Older(@)]
        PROVE  /\ next \in Entry /\ next.kind = e.kind /\ next.body = e.body
               /\ next.private = e.private /\ next.store = e.store
               /\ e.kind # "none" => next.age = Older(e.age)
    <3>1. Older(e.age) \in Age
      BY OlderIsMonotone DEF Entry
    <3>2. QED
      BY <1>t, <2>2, <3>1 DEF Entry, NoEntry
  <2>3. /\ shared' \in Entry /\ shared'.kind = shared.kind /\ shared'.body = shared.body
        /\ shared'.private = shared.private
        /\ shared.kind # "none" => shared'.age = Older(shared.age)
    BY <1>5, <1>t, <2>2 DEF Tick
  <2>4. /\ transit' \in Entry /\ transit'.kind = transit.kind /\ transit'.body = transit.body
        /\ transit'.private = transit.private /\ transit'.store = transit.store
        /\ transit.kind # "none" => transit'.age = Older(transit.age)
    BY <1>5, <1>t, <2>2 DEF Tick
  <2>5. ASSUME NEW body, NEW age \in Age, RecentAt(body, age)
        PROVE  body \subseteq writes' /\ \A a \in writes' \ body : since'[a] <= Older(age)
    <3>1. \A a \in Attempt : since[a] \in Age
      BY <1>t DEF AllTypeOK
    <3>2. writes \subseteq Attempt
      BY <1>t DEF AllTypeOK, TypeOK
    <3>3. QED
      BY <2>1, <2>5, <3>1, <3>2, OlderIsMonotone DEF RecentAt
  <2>6. shared.age \in Age /\ transit.age \in Age
    BY <1>t DEF Entry
  <2>7. AllTypeOK'
    BY <1>t, <2>1, <2>3, <2>4 DEF AllTypeOK
  <2>8. \A a \in Attempt : a \notin writes' => since'[a] = 0
    BY <2>1
  <2>9. /\ shared'.kind = "full" => RecentAt(shared.body, shared.age)'
        /\ transit'.kind = "full" => RecentAt(transit.body, transit.age)'
        /\ transit'.kind = "304" => shared'.kind = "full" /\ RecentAt(shared.body, transit.age)'
    BY <2>3, <2>4, <2>5, <2>6 DEF CacheInv, RecentAt
  <2>10. QED
    BY <2>3, <2>4, <2>7, <2>8, <2>9 DEF CacheInv
<1>6. QED
  BY <1>1, <1>2, <1>3, <1>4, <1>5 DEF AllNext

\* main.py:183: what a shared cache serves was the service's answer at most
\* max-age ago, also after a 304 and however long responses take.
THEOREM SharedStaysRecent == AllSpec => []SharedIsRecent
<1>1. AllInit => CacheInv
  <2> SUFFICES ASSUME AllInit PROVE CacheInv
    OBVIOUS
  <2>1. TypeOK
    BY ReplayInit DEF AllInit, ReplayInv
  <2>2. NoEntry \in Entry /\ 0 \in Age
    BY DEF NoEntry, Entry, Age
  <2>3. QED
    BY <2>1, <2>2 DEF AllInit, CacheInv, AllTypeOK, NoEntry
<1>2. CacheInv => SharedIsRecent
  <2> SUFFICES ASSUME CacheInv, Fresh(shared) PROVE SharedIsRecent
    BY DEF SharedIsRecent
  <2>1. RecentAt(shared.body, shared.age) /\ shared.age <= MaxAge /\ shared.age \in Age
    BY DEF CacheInv, Fresh, AllTypeOK, Entry
  <2>2. \A a \in writes : since[a] \in Age
    BY DEF CacheInv, AllTypeOK, TypeOK
  <2>3. QED
    BY <2>1, <2>2 DEF CacheInv, SharedIsRecent, RecentAt, Age
<1>3. QED
  BY <1>1, <1>2, CacheStep, CachingKeepsPosts, Replays, PTL DEF AllSpec
=============================================================================
