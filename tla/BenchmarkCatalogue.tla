------------------------- MODULE BenchmarkCatalogue -------------------------
(***************************************************************************)
(* The rows of benchmarks: routers/benchmarks.py and search.py, the first  *)
(* step of the CLI's submit, and scripts/seed.py, which also creates the   *)
(* registry's account and the reference corpora.                           *)
(*                                                                         *)
(* PostgreSQL runs at READ COMMITTED: a SELECT sees what is committed when *)
(* it runs.  An INSERT of a key that another open transaction has inserted *)
(* waits for the end of that transaction.  created_at is now(), the start  *)
(* of the transaction, so the order of the rows by created_at is not the   *)
(* order in which they appear.  A row is named after the process that      *)
(* inserts it.                                                             *)
(***************************************************************************)
EXTENDS Integers, FiniteSets, SequencesExt

CONSTANTS
  Writer,      (* POSTs of a benchmark                                     *)
  Cli,         (* those that `evalledger submit` makes                     *)
  Patcher,     (* PATCHes of a benchmark's name                            *)
  Seeder,      (* runs of seed.py                                          *)
  User,        (* who makes the requests                                   *)
  Registry,    (* the registry's own account                               *)
  Slug,        (* slugs, in their alphabetical order                       *)
  SeedSlug,    (* the slug of a seeded benchmark                           *)
  Limit        (* size of a page                                           *)

ASSUME CatalogueAssumption ==
  /\ Cli \subseteq Writer
  /\ Writer \cap Seeder = {} /\ Patcher \cap (Writer \cup Seeder) = {}
  /\ Registry \notin User
  /\ Slug \subseteq Nat /\ SeedSlug \in Slug
  /\ Limit \in Nat \ {0}

VARIABLES
  call,        (* the slug a POST is about, and who makes it               *)
  pc,          (* where each process is                                    *)
  started,     (* open or committed transactions that may insert a row, in  *)
               (* the order in which they started                          *)
  staged,      (* what its open transaction has inserted                   *)
  rows,        (* committed rows of benchmarks                             *)
  name,        (* their names: the rank of a name among names              *)
  account,     (* the registry's account: absent, or committed when        *)
  corpora,     (* who has committed a row of the reference corpus          *)
  found,       (* the row that a PATCH has loaded                          *)
  walk         (* a client reading page after page                         *)

procVars == <<call, pc>>
dbVars == <<started, staged, rows, name, account, corpora>>
vars == <<procVars, dbVars, found, walk>>

Creator == Writer \cup Seeder
Process == Creator \cup Patcher
Nobody == "nobody"
Request == [slug : Slug, by : User]
NoCall == [slug |-> 0, by |-> Nobody]
Account == {"none", "old", "new"}
Order == {"created", "name"}
Early == 1
Late == 2
NotWalking == [at |-> "idle", by |-> "created", page |-> 1, total |-> 0, missed |-> {}]

TypeOK ==
  /\ call \in [Writer -> Request \cup {NoCall}]
  /\ pc \in [Process -> {"look", "start", "insert", "save", "newaccount", "corpora",
               "benchmark", "commit", "ready",
               "refused", "patched", "201", "409", "500", "seeded", "crashed"}]
  /\ started \in Seq(Creator)
  /\ staged \in [Creator -> SUBSET {"account", "corpus", "benchmark"}]
  /\ rows \subseteq Creator
  /\ name \in [Creator -> {Early, Late}]
  /\ account \in Account
  /\ corpora \subseteq Seeder
  /\ found \in [Patcher -> Creator \cup {Nobody}]
  /\ walk \in [at : {"idle", "count", "page", "ended"}, by : Order, page : Nat,
               total : Nat, missed : SUBSET Creator]

SlugOf(c) == IF c \in Seeder THEN SeedSlug ELSE call[c].slug
Submitter(c) == IF c \in Seeder THEN Registry ELSE call[c].by

\* An earlier release may have been seeded: its account is there, and it had
\* neither this corpus nor this benchmark.
Init ==
  /\ call = [w \in Writer |-> NoCall]
  /\ pc = [p \in Process |-> IF p \in Cli THEN "look" ELSE "start"]
  /\ started = <<>>
  /\ staged = [c \in Creator |-> {}]
  /\ rows = {}
  /\ name = [c \in Creator |-> Early]
  /\ account \in {"none", "old"}
  /\ corpora = {}
  /\ found = [p \in Patcher |-> Nobody]
  /\ walk = NotWalking

At(p, here) == pc[p] = here
GoTo(p, there) == pc' = [pc EXCEPT ![p] = there]
-----------------------------------------------------------------------------
(* The database.                                                           *)

\* SELECT ... WHERE slug
Listed(slug) == {r \in rows : SlugOf(r) = slug}

\* The handler's first SELECT opens the transaction (a token's get_current_user
\* does it just before; an API key's commits), and so does that of seed.py.
Begin(c) == started' = Append(started, c)

\* No row will come of the transaction: its time does not matter any more.
Withdraw(c) == \E i \in DOMAIN started : started[i] = c /\ started' = RemoveAt(started, i)

\* Mutation of Unique: the columns are not declared unique.
NoneUnique == {}

\* unique=True on benchmarks.slug and users.username.
Unique == {"account", "benchmark"}

\* Open transactions that have inserted the key that c is about to insert.
Rivals(c, thing) ==
  {d \in Creator \ {c} :
     /\ thing \in Unique \cap staged[d]
     /\ thing = "benchmark" => SlugOf(d) = SlugOf(c)}

Taken(c, thing) ==
  /\ thing \in Unique
  /\ \/ thing = "benchmark" /\ Listed(SlugOf(c)) # {}
     \/ thing = "account" /\ account # "none"

\* The flush of an INSERT: it waits for rivals, then fails or is staged.
Flush(c, thing, next, failure) ==
  /\ Rivals(c, thing) = {}
  /\ IF Taken(c, thing)
       THEN /\ GoTo(c, failure)
            /\ staged' = [staged EXCEPT ![c] = {}]
            /\ Withdraw(c)
       ELSE /\ GoTo(c, next)
            /\ staged' = [staged EXCEPT ![c] = @ \cup {thing}]
            /\ UNCHANGED started
  /\ UNCHANGED <<call, rows, name, account, corpora, found, walk>>

Rollback(c, next) ==
  /\ GoTo(c, next)
  /\ staged' = [staged EXCEPT ![c] = {}]
  /\ Withdraw(c)
  /\ UNCHANGED <<call, rows, name, account, corpora, found, walk>>

\* Mutation of Visible: the handler does not commit.
NothingVisible(c) == rows

Visible(c) == IF "benchmark" \in staged[c] THEN rows \cup {c} ELSE rows

\* What a client has read is no longer one listing: it is not followed on.
Torn == [NotWalking EXCEPT !.at = "ended"]

\* A row that appears between the COUNT and the SELECT of one page tears.
Commit(c, next) ==
  /\ rows' = Visible(c)
  /\ account' = IF "account" \in staged[c] THEN "new" ELSE account
  /\ corpora' = IF "corpus" \in staged[c] THEN corpora \cup {c} ELSE corpora
  /\ walk' = IF walk.at = "page" /\ "benchmark" \in staged[c] THEN Torn ELSE walk
  /\ staged' = [staged EXCEPT ![c] = {}]
  /\ IF "benchmark" \in staged[c] THEN UNCHANGED started ELSE Withdraw(c)
  /\ GoTo(c, next)
  /\ UNCHANGED <<call, name, found>>
-----------------------------------------------------------------------------
(* create_benchmark, and submit.py before it.                              *)

\* submit.py takes every error of get_benchmark for "not there".
Look(w) ==
  /\ At(w, "look")
  /\ \E q \in Request :
       /\ call' = [call EXCEPT ![w] = q]
       /\ \/ GoTo(w, IF Listed(q.slug) # {} THEN "ready" ELSE "start")
          \/ GoTo(w, "start")
  /\ UNCHANGED <<dbVars, found, walk>>

\* A CLI posts the slug that it has looked for.
CheckSlug(w) ==
  /\ At(w, "start")
  /\ \E q \in IF w \in Cli THEN {call[w]} ELSE Request :
       /\ call' = [call EXCEPT ![w] = q]
       /\ IF Listed(q.slug) # {}
            THEN GoTo(w, "409") /\ UNCHANGED started
            ELSE GoTo(w, "insert") /\ Begin(w)
  /\ UNCHANGED <<staged, rows, name, account, corpora, found, walk>>

\* handle_integrity_error
Violation == "409"

Insert(w) == At(w, "insert") /\ Flush(w, "benchmark", "commit", Violation)

\* After the commit the handler reads the row again, which may fail too.
CommitBenchmark(w) ==
  /\ At(w, "commit")
  /\ \E answer \in {"201", "500"} : Commit(w, answer)

\* The database fails, or the process dies, before the commit.
CreateFails(w) == pc[w] \in {"insert", "commit"} /\ Rollback(w, "500")

Create(w) ==
  Look(w) \/ CheckSlug(w) \/ Insert(w) \/ CommitBenchmark(w) \/ CreateFails(w)
-----------------------------------------------------------------------------
(* update_benchmark                                                        *)

\* 404, and 403 for everyone but the submitter.
Load(p) ==
  /\ At(p, "start")
  /\ \E q \in Request :
       \/ /\ \A r \in Listed(q.slug) : Submitter(r) # q.by
          /\ GoTo(p, "refused")
          /\ UNCHANGED found
       \/ \E r \in Listed(q.slug) :
            /\ Submitter(r) = q.by
            /\ GoTo(p, "save")
            /\ found' = [found EXCEPT ![p] = r]
  /\ UNCHANGED <<call, dbVars, walk>>

\* The UPDATE, its audit event and the commit; or all is rolled back.
Save(p) ==
  /\ At(p, "save")
  /\ GoTo(p, "patched")
  /\ found' = [found EXCEPT ![p] = Nobody]
  /\ \/ /\ name' = [name EXCEPT ![found[p]] = Late]
        /\ walk' = IF walk.at \in {"count", "page"} /\ walk.by = "name" THEN Torn ELSE walk
     \/ UNCHANGED <<name, walk>>
  /\ UNCHANGED <<call, started, staged, rows, account, corpora>>

Patch(p) == Load(p) \/ Save(p)
-----------------------------------------------------------------------------
(* seed.py: three kinds of rows, one commit.                               *)

SeedAccount(s) ==
  /\ At(s, "start")
  /\ GoTo(s, IF account # "none" THEN "corpora" ELSE "newaccount")
  /\ Begin(s)
  /\ UNCHANGED <<call, staged, rows, name, account, corpora, found, walk>>

NewAccount(s) == At(s, "newaccount") /\ Flush(s, "account", "corpora", "crashed")

\* Mutation of AddsCorpus: whoever finds the account leaves the corpora.
OnlyWithAccount(s) == corpora = {} /\ "account" \in staged[s]

\* reference_corpora.name is not unique: only the SELECT prevents a copy.
AddsCorpus(s) == corpora = {}

SeedCorpora(s) ==
  /\ At(s, "corpora")
  /\ staged' = [staged EXCEPT ![s] = IF AddsCorpus(s) THEN @ \cup {"corpus"} ELSE @]
  /\ GoTo(s, "benchmark")
  /\ UNCHANGED <<call, started, rows, name, account, corpora, found, walk>>

SeedBenchmark(s) ==
  /\ At(s, "benchmark")
  /\ GoTo(s, IF Listed(SeedSlug) # {} THEN "commit" ELSE "insert")
  /\ UNCHANGED <<call, dbVars, found, walk>>

\* A violation raises out of seed(), which rolls everything back.
NewBenchmark(s) == At(s, "insert") /\ Flush(s, "benchmark", "commit", "crashed")

SeedCommit(s) == At(s, "commit") /\ Commit(s, "seeded")

SeedFails(s) ==
  /\ pc[s] \in {"newaccount", "corpora", "benchmark", "insert", "commit"}
  /\ Rollback(s, "crashed")

Seed(s) ==
  \/ SeedAccount(s) \/ NewAccount(s) \/ SeedCorpora(s) \/ SeedBenchmark(s)
  \/ NewBenchmark(s) \/ SeedCommit(s) \/ SeedFails(s)
-----------------------------------------------------------------------------
(* list_benchmarks and search_benchmarks, called for one page after        *)
(* another until page * limit reaches the total.                           *)

Created(r, s) == \E i, j \in DOMAIN started : i > j /\ started[i] = r /\ started[j] = s

Named(r, s) == name[r] < name[s] \/ (name[r] = name[s] /\ SlugOf(r) < SlugOf(s))

\* Mutation of Before: the listing is sorted by name, as the search is.
AlwaysByName(by, r, s) == Named(r, s)

\* The list has the newest first; the search sorts by name, then by slug.
Before(by, r, s) == IF by = "created" THEN Created(r, s) ELSE Named(r, s)

Offset(page) == (page - 1) * Limit

Page(by, page) ==
  LET place(r) == Cardinality({s \in rows : Before(by, s, r)})
  IN  {r \in rows : place(r) \in Offset(page)..(Offset(page) + Limit - 1)}

Counted == Cardinality(rows)

\* (Of an empty catalogue there is nothing to miss.)
StartWalk(by) ==
  /\ walk.at = "idle"
  /\ rows # {}
  /\ walk' = [NotWalking EXCEPT !.at = "page", !.by = by, !.missed = rows, !.total = Counted]
  /\ UNCHANGED <<procVars, dbVars, found>>

Count ==
  /\ walk.at = "count"
  /\ walk' = [walk EXCEPT !.at = "page", !.total = Counted]
  /\ UNCHANGED <<procVars, dbVars, found>>

ReadPage ==
  /\ walk.at = "page"
  /\ LET missed == walk.missed \ Page(walk.by, walk.page)
     IN  walk' = IF walk.page * Limit >= walk.total
                   THEN [NotWalking EXCEPT !.at = "ended", !.missed = missed]
                   ELSE [walk EXCEPT !.at = "count", !.page = @ + 1, !.missed = missed]
  /\ UNCHANGED <<procVars, dbVars, found>>

Read == Count \/ ReadPage \/ \E by \in Order : StartWalk(by)

\* Everybody has ended: the only state in which nothing moves.
Finished ==
  /\ \A p \in Process : pc[p] \in {"ready", "refused", "patched", "201", "409", "500",
                                   "seeded", "crashed"}
  /\ walk.at \in {"idle", "ended"}
  /\ UNCHANGED vars

Next ==
  \/ \E w \in Writer : Create(w)
  \/ \E p \in Patcher : Patch(p)
  \/ \E s \in Seeder : Seed(s)
  \/ Read
  \/ Finished

Spec == Init /\ [][Next]_vars
-----------------------------------------------------------------------------
\* models/benchmark.py:24: although creations and seedings all look before
\* they insert, and all may look before any of them inserts, no two committed
\* benchmarks share a slug.
SlugIsUnique == \A r, s \in rows : SlugOf(r) = SlugOf(s) => r = s

\* benchmarks.py:130, errors.py:130: an answer tells what became of the slug.
\* 201: this request created it.  409: somebody else has, and this request
\* left nothing behind.  A CLI goes on to upload only to a slug that exists.
\* (A 500 tells nothing: it may come after the commit.)
AnswerTellsSlug ==
  \A w \in Writer :
    /\ pc[w] = "201" => w \in rows
    /\ pc[w] = "409" => w \notin rows /\ Listed(SlugOf(w)) # {}
    /\ pc[w] = "ready" => Listed(SlugOf(w)) # {}

\* seed.py:259-356: a run that ends well leaves the account, the corpus and the
\* benchmark, whatever other runs and requests do at the same time; one that
\* fails leaves nothing; and the runs that seed an empty database leave one
\* row of the corpus, because each has to insert the same account first.
\* (When the account is older than the corpus nothing else stops a second row,
\* and every check is then run against the corpus twice.)
SeedConverges ==
  /\ \A s \in Seeder :
       /\ pc[s] = "seeded" => account # "none" /\ corpora # {} /\ Listed(SeedSlug) # {}
       /\ pc[s] = "crashed" => s \notin rows \cup corpora
  /\ account = "new" => Cardinality(corpora) <= 1

\* benchmarks.py:65-79, search.py:71-78: a client that reads pages until the
\* total misses no benchmark that was there when it started, although others
\* are committed meanwhile, some of them in the middle of the order; unless
\* one is committed between the COUNT and the SELECT of one page, or a
\* benchmark is renamed while the client reads by name.
WalkIsComplete == walk.at = "ended" => walk.missed = {}
=============================================================================
