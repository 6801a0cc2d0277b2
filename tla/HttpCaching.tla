---------------------------- MODULE HttpCaching ----------------------------
(***************************************************************************)
(* backend/app/main.py _apply_http_caching, beside the writes of           *)
(* IdempotentPost: an anonymous GET of the resource that the attempts      *)
(* write to gets a weak ETag and "public, max-age", one with a credential  *)
(* "private, no-store".  A cache between the clients and the service       *)
(* (external) keeps public responses, serves them while they are fresh,    *)
(* and revalidates them with If-None-Match afterwards.                     *)
(*                                                                         *)
(* The body of the resource is the set of writes it shows.  A response is  *)
(* computed at one time and reaches the cache later; its age counts from   *)
(* the Date of the response.  since records when each write was committed. *)
(***************************************************************************)
EXTENDS IdempotentPost

CONSTANT
  MaxAge    (* http_cache_max_age, in ticks of the clock                   *)

ASSUME MaxAgeAssumption == MaxAge \in Nat

VARIABLES
  shared,   (* the entry of the cache                                      *)
  transit,  (* a response on its way to it                                 *)
  since     (* ticks since each write, as far as they matter               *)

cacheVars == <<shared, transit, since>>
allVars == <<vars, cacheVars>>

Age == 0..(MaxAge + 1)

\* private tells what was said to a caller with a credential, store whether
\* Cache-Control allows a shared cache to keep it.
NoEntry == [kind |-> "none", body |-> {}, private |-> FALSE, store |-> TRUE, age |-> 0]

Entry == [kind : {"none", "full", "304"}, body : SUBSET Attempt, private : BOOLEAN,
          store : BOOLEAN, age : Age]

AllTypeOK ==
  /\ TypeOK
  /\ shared \in Entry /\ transit \in Entry
  /\ shared.kind # "304"
  /\ since \in [Attempt -> Age]

AllInit ==
  /\ Init
  /\ shared = NoEntry /\ transit = NoEntry
  /\ since = [a \in Attempt |-> 0]

Min2(m, n) == IF m < n THEN m ELSE n
Older(age) == Min2(age + 1, MaxAge + 1)
-----------------------------------------------------------------------------
\* Mutation of ETag: the tag identifies the resource, not its body.
TagOfPath(body) == {}

\* The hash of the body.
ETag(body) == body

\* "public, max-age" for anonymous requests, "private, no-store" for the others.
MayBeShared(credential) == ~credential

Fresh(entry) == entry.kind = "full" /\ entry.age <= MaxAge

\* A GET that the cache does not answer goes to the service; the body is what
\* is committed by now.  With a credential it gets a full response, without
\* one a 304 if it carries the tag of a stale entry that is still right.
Get(credential) ==
  /\ transit = NoEntry
  /\ ~Fresh(shared) \/ credential
  /\ LET full == [kind |-> "full", body |-> writes, private |-> credential,
                  store |-> MayBeShared(credential), age |-> 0]
         notModified == [NoEntry EXCEPT !.kind = "304"]
     IN  transit' = IF /\ ~credential
                       /\ shared.kind = "full" /\ ETag(shared.body) = ETag(writes)
                    THEN notModified
                    ELSE full
  /\ UNCHANGED <<vars, shared, since>>

\* The response arrives: 304 refreshes the entry, 200 replaces it, and what
\* must not be stored passes by.
Arrive ==
  /\ transit # NoEntry
  /\ shared' = IF transit.kind = "304" THEN [shared EXCEPT !.age = transit.age]
               ELSE IF transit.store THEN transit
               ELSE shared
  /\ transit' = NoEntry
  /\ UNCHANGED <<vars, since>>

\* The cache drops what it holds, or the response is lost.
Evict ==
  /\ shared # NoEntry \/ transit # NoEntry
  /\ transit.kind # "304"
  /\ shared' = NoEntry
  /\ transit' = NoEntry
  /\ UNCHANGED <<vars, since>>

Tick ==
  /\ shared' = IF shared = NoEntry THEN NoEntry ELSE [shared EXCEPT !.age = Older(@)]
  /\ transit' = IF transit = NoEntry THEN NoEntry ELSE [transit EXCEPT !.age = Older(@)]
  /\ since' = [a \in Attempt |-> IF a \in writes THEN Older(since[a]) ELSE 0]
  /\ UNCHANGED vars

Posts == Next /\ UNCHANGED cacheVars

AllNext == Posts \/ (\E credential \in BOOLEAN : Get(credential)) \/ Arrive \/ Evict \/ Tick

AllSpec == AllInit /\ [][AllNext]_allVars
-----------------------------------------------------------------------------
\* main.py:183: what the cache serves is what the service would have said at
\* most max-age ago, also after a 304 and however long responses take: no
\* write that it lacks is older.  What a caller with a credential was told is
\* never served to others.
SharedIsRecent ==
  Fresh(shared) =>
    /\ ~shared.private
    /\ shared.body \subseteq writes
    /\ \A a \in writes \ shared.body : since[a] <= MaxAge
=============================================================================
