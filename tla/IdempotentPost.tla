-------------------------- MODULE IdempotentPost --------------------------
(***************************************************************************)
(* The Idempotency-Key middleware (backend/app/main.py idempotency,        *)
(* backend/app/idempotency.py) for one caller, path and key: attempts of   *)
(* one logical POST that a client repeats after a lost reply, a 5xx, a     *)
(* refusal or a double-click.                                              *)
(*                                                                         *)
(* Each attempt reads the cached response from Redis, otherwise runs the   *)
(* handler, and stores a response below 500 with SET NX EX.  Nothing marks *)
(* an attempt that is still running.  The handler includes the rate limit  *)
(* dependency (RateLimiter), which may refuse at any time.                 *)
(*                                                                         *)
(* earlier and forgotten only record the history that properties refer to. *)
(***************************************************************************)
EXTENDS Naturals, FiniteSets

CONSTANTS
  Attempt,      (* repetitions of the request, by any of the client's tabs *)
  NoResponse,   (* an empty cache slot, an attempt without a reply         *)
  Faults        (* what may fail                                           *)

AllFaults == {"redis", "handler", "crash", "expire"}

ASSUME ConstantsAssumption ==
  Faults \subseteq AllFaults

\* What handlers answer: 409 stands for every answer below 500 other than 201
\* and 429, none of which comes with a write.
Code == {201, 409, 429, 500}
Response == [code : Code, from : Attempt]

ASSUME NoResponseAssumption == NoResponse \notin Response

VARIABLES
  pc,       (* where each attempt is                                       *)
  answer,   (* the response of each attempt, own or replayed               *)
  cache,    (* the value of the Redis key                                  *)
  writes,   (* attempts whose handler committed the write                  *)
  earlier,  (* attempts that were answered when each attempt began         *)
  forgotten (* whether a Redis call has failed, and the key has been lost  *)

history == <<earlier, forgotten>>
vars == <<pc, answer, cache, writes, history>>

TypeOK ==
  /\ pc \in [Attempt -> {"new", "handle", "store", "done"}]
  /\ answer \in [Attempt -> Response \cup {NoResponse}]
  /\ cache \in Response \cup {NoResponse}
  /\ writes \subseteq Attempt
  /\ earlier \in [Attempt -> SUBSET Attempt]
  /\ forgotten \subseteq {"failure", "loss"}

Init ==
  /\ pc = [a \in Attempt |-> "new"]
  /\ answer = [a \in Attempt |-> NoResponse]
  /\ cache = NoResponse
  /\ writes = {}
  /\ earlier = [a \in Attempt |-> {}]
  /\ forgotten = {}

\* The key is scoped by credential and path, the same for all attempts.
Hit(a) == cache # NoResponse

Goto(a, to) == pc' = [pc EXCEPT ![a] = to]
Answer(a, response) == answer' = [answer EXCEPT ![a] = response]

\* Mutations of Storable: failures are remembered too, or nothing but 200.
AlwaysStorable(code) == TRUE
OnlyOkStorable(code) == code = 200

\* Only a response below 500 is worth storing.
Storable(code) == code < 500

Respond(a, code) ==
  /\ Answer(a, [code |-> code, from |-> a])
  /\ Goto(a, IF Storable(code) THEN "store" ELSE "done")

\* Mutation of Kept: SET lacks NX.
KeptLatest(a) == answer[a]

\* SET NX: the key keeps the response it has.
Kept(a) == IF cache = NoResponse THEN answer[a] ELSE cache
-----------------------------------------------------------------------------
Forget(what) == forgotten' = forgotten \cup {what}

Begin(a) ==
  earlier' = [earlier EXCEPT ![a] = {b \in Attempt : pc[b] = "done" /\ answer[b] # NoResponse}]

\* redis.get finds a response: it is replayed and the handler never runs.
Replay(a) ==
  /\ pc[a] = "new"
  /\ Hit(a)
  /\ Answer(a, cache)
  /\ Goto(a, "done")
  /\ Begin(a)
  /\ UNCHANGED <<cache, writes, forgotten>>

\* No cached response.
Miss(a) ==
  /\ pc[a] = "new"
  /\ ~Hit(a)
  /\ Goto(a, "handle")
  /\ Begin(a)
  /\ UNCHANGED <<answer, cache, writes, forgotten>>

\* Redis cannot be asked, or this process has no Redis client at all.
LookupFails(a) ==
  /\ "redis" \in Faults
  /\ pc[a] = "new"
  /\ Goto(a, "handle")
  /\ Begin(a)
  /\ Forget("failure")
  /\ UNCHANGED <<answer, cache, writes>>

\* The rate limit dependency refuses before the handler runs, or the handler
\* does and writes nothing.
Refuse(a) ==
  /\ pc[a] = "handle"
  /\ \E code \in {409, 429} : Respond(a, code)
  /\ UNCHANGED <<cache, writes, history>>

\* The handler commits its write and answers.
Write(a) ==
  /\ pc[a] = "handle"
  /\ writes' = writes \cup {a}
  /\ Respond(a, 201)
  /\ UNCHANGED <<cache, history>>

\* The handler answers 500, before or after its commit.
HandlerFails(a) ==
  /\ "handler" \in Faults
  /\ pc[a] = "handle"
  /\ writes' \in {writes, writes \cup {a}}
  /\ Respond(a, 500)
  /\ UNCHANGED <<cache, history>>

\* SET NX EX: the first stored response stays; the attempt returns its own.
Store(a) ==
  /\ pc[a] = "store"
  /\ cache' = Kept(a)
  /\ Goto(a, "done")
  /\ UNCHANGED <<answer, writes, history>>

\* The call to Redis fails, before or after the key is set; the middleware
\* answers all the same.
StoreFails(a) ==
  /\ "redis" \in Faults
  /\ pc[a] = "store"
  /\ cache' \in {cache, Kept(a)}
  /\ Goto(a, "done")
  /\ Forget("failure")
  /\ UNCHANGED <<answer, writes, earlier>>

\* The API process dies and the client gets no reply.
Crash(a) ==
  /\ "crash" \in Faults
  /\ pc[a] \in {"handle", "store"}
  /\ Answer(a, NoResponse)
  /\ Goto(a, "done")
  /\ UNCHANGED <<cache, writes, history>>

\* The TTL ends, or Redis evicts the key.
Expire ==
  /\ "expire" \in Faults
  /\ cache # NoResponse
  /\ cache' = NoResponse
  /\ Forget("loss")
  /\ UNCHANGED <<pc, answer, writes, earlier>>

Next ==
  \/ \E a \in Attempt :
       \/ Replay(a) \/ Miss(a) \/ LookupFails(a) \/ Refuse(a) \/ Write(a) \/ HandlerFails(a)
       \/ Store(a) \/ StoreFails(a) \/ Crash(a)
  \/ Expire

Spec == Init /\ [][Next]_vars
-----------------------------------------------------------------------------
\* Whatever fails and however attempts overlap, a replay tells the truth: a
\* 201 from the cache stands for a write that was committed, any other answer
\* for an attempt that wrote nothing, and a 5xx is never replayed.
ReplayIsTrue ==
  \A a \in Attempt : answer[a] # NoResponse =>
    LET origin == answer[a].from
    IN  /\ answer[a].code = 201 => origin \in writes
        /\ answer[a].code \in {409, 429} => origin \notin writes
        /\ answer[a].code = 500 => origin = a

\* idempotency.py:5, "the write happens at most once": whoever starts an
\* attempt after another one was answered with success does not write again,
\* however many attempts overlapped, failed or crashed before, unless Redis
\* failed or lost the key.
AcknowledgedWriteIsOnce ==
  \A a, b \in Attempt :
    forgotten = {} /\ b \in earlier[a] /\ answer[b].code = 201 => a \notin writes

\* idempotency.py:4, "the first response is cached in Redis and replayed on
\* subsequent identical requests": all attempts that are answered from the
\* cache, however many handlers ran beside them and whichever calls to Redis
\* failed, are told the same, which is what the next one will be told; only
\* the end or the loss of the key makes them differ.
ReplaysAgree ==
  \A a \in Attempt :
    "loss" \notin forgotten /\ answer[a] # NoResponse /\ answer[a].from # a =>
      answer[a] = cache
=============================================================================
