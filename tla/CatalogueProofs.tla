-------------------------- MODULE CatalogueProofs --------------------------
(***************************************************************************)
(* Proofs about BenchmarkCatalogue for any number of creations, PATCHes,   *)
(* seedings, slugs and users, and any page size: what the unique columns   *)
(* protect, what the runs of seed.py leave together, and what a client     *)
(* that reads page after page does not miss.                               *)
(***************************************************************************)
EXTENDS BenchmarkCatalogue, TLAPS, FiniteSetTheorems, SequenceTheorems

USE CatalogueAssumption

Here ==
  {"look", "start", "insert", "save", "newaccount", "corpora", "benchmark", "commit", "ready",
   "refused", "patched", "201", "409", "500", "seeded", "crashed"}
Thing == {"account", "corpus", "benchmark"}
Walk ==
  [at : {"idle", "count", "page", "ended"}, by : Order, page : Nat, total : Nat,
   missed : SUBSET Creator]

\* The type invariant; and rows are committed one by one, so a COUNT of them
\* is a number.
CatalogueType ==
  /\ call \in [Writer -> Request \cup {NoCall}]
  /\ pc \in [Process -> Here]
  /\ started \in Seq(Creator)
  /\ staged \in [Creator -> SUBSET Thing]
  /\ rows \subseteq Creator
  /\ name \in [Creator -> {Early, Late}]
  /\ account \in Account
  /\ corpora \subseteq Seeder
  /\ found \in [Patcher -> Creator \cup {Nobody}]
  /\ walk \in Walk
  /\ IsFiniteSet(rows)

LEMMA TypeIsType == CatalogueType => TypeOK
  BY DEF CatalogueType, TypeOK, Here, Thing, Walk

\* The relative order of the transactions that stay is the same when one of
\* them is withdrawn.
LEMMA Withdrawn ==
  ASSUME NEW S, NEW s \in Seq(S), NEW i \in DOMAIN s
  PROVE  LET t == RemoveAt(s, i)
         IN  /\ t \in Seq(S)
             /\ Len(t) = Len(s) - 1
             /\ \A j \in 1..(i - 1) : t[j] = s[j]
             /\ \A j \in i..(Len(s) - 1) : t[j] = s[j + 1]
<1> DEFINE a == SubSeq(s, 1, i - 1)
           b == SubSeq(s, i + 1, Len(s))
<1>1. Len(s) \in Nat /\ i \in 1..Len(s)
  OBVIOUS
<1>2. a \in Seq(S) /\ Len(a) = i - 1 /\ \A j \in 1..(i - 1) : a[j] = s[j]
  BY <1>1, SubSeqProperties
<1>3. b \in Seq(S) /\ Len(b) = Len(s) - i /\ \A j \in 1..(Len(s) - i) : b[j] = s[i + j]
  BY <1>1, SubSeqProperties
<1> HIDE DEF a, b
<1>4. /\ a \o b \in Seq(S) /\ Len(a \o b) = Len(s) - 1
      /\ \A j \in 1..Len(a \o b) : (a \o b)[j] = IF j <= Len(a) THEN a[j] ELSE b[j - Len(a)]
  <2>1. a \in Seq(S) /\ b \in Seq(S)
    BY <1>2, <1>3
  <2>2. /\ a \o b \in Seq(S) /\ Len(a \o b) = Len(a) + Len(b)
        /\ \A j \in 1..Len(a) + Len(b) :
             (a \o b)[j] = IF j <= Len(a) THEN a[j] ELSE b[j - Len(a)]
    BY <2>1, ConcatProperties, ZenonT(30)
  <2>3. Len(a) + Len(b) = Len(s) - 1
    BY <1>1, <1>2, <1>3
  <2>4. QED
    BY <2>2, <2>3, Zenon
<1>5. \A j \in 1..(i - 1) : (a \o b)[j] = s[j]
  BY <1>1, <1>2, <1>4
<1>6. ASSUME NEW j \in i..(Len(s) - 1) PROVE (a \o b)[j] = s[j + 1]
  <2>1. (a \o b)[j] = b[j - (i - 1)]
    BY <1>1, <1>2, <1>4
  <2>2. b[j - (i - 1)] = s[i + (j - (i - 1))]
    BY <1>1, <1>3, SMTT(30)
  <2>3. QED
    BY <1>1, <2>1, <2>2
<1>7. QED
  BY <1>4, <1>5, <1>6 DEF RemoveAt, a, b

LEMMA WithdrawType ==
  ASSUME started \in Seq(Creator), NEW c, Withdraw(c)
  PROVE  started' \in Seq(Creator)
  BY Withdrawn DEF Withdraw

LEMMA FlushType ==
  ASSUME CatalogueType, NEW c \in Creator, NEW thing \in Thing,
         NEW next \in Here, NEW failure \in Here, Flush(c, thing, next, failure)
  PROVE  CatalogueType'
<1>1. started' \in Seq(Creator)
  BY WithdrawType DEF Flush, CatalogueType
<1>2. pc' \in [Process -> Here]
  BY DEF Flush, CatalogueType, GoTo
<1>s. staged' \in [Creator -> SUBSET Thing]
  BY DEF Flush, CatalogueType
<1>3. UNCHANGED <<call, rows, name, account, corpora, found, walk>>
  BY DEF Flush
<1>4. QED
  BY <1>1, <1>2, <1>s, <1>3 DEF CatalogueType

LEMMA RollbackType ==
  ASSUME CatalogueType, NEW c \in Creator, NEW next \in Here, Rollback(c, next)
  PROVE  CatalogueType'
<1>1. started' \in Seq(Creator)
  BY WithdrawType DEF Rollback, CatalogueType
<1>2. pc' \in [Process -> Here] /\ staged' \in [Creator -> SUBSET Thing]
  BY DEF Rollback, CatalogueType, GoTo
<1>3. UNCHANGED <<call, rows, name, account, corpora, found, walk>>
  BY DEF Rollback
<1>4. QED
  BY <1>1, <1>2, <1>3 DEF CatalogueType

LEMMA TornType == Torn \in Walk
  BY DEF Torn, NotWalking, Walk, Order

LEMMA CommitType ==
  ASSUME CatalogueType, NEW c \in Creator, NEW next \in Here, Commit(c, next),
         c \in Seeder \/ "corpus" \notin staged[c]
  PROVE  CatalogueType'
<1>1. started' \in Seq(Creator)
  BY WithdrawType DEF Commit, CatalogueType
<1>2. pc' \in [Process -> Here] /\ staged' \in [Creator -> SUBSET Thing]
  BY DEF Commit, CatalogueType, GoTo
<1>3. rows' \subseteq Creator /\ IsFiniteSet(rows')
  BY FS_AddElement DEF Commit, Visible, CatalogueType
<1>4. account' \in Account /\ corpora' \subseteq Seeder
  BY DEF Commit, CatalogueType, Account
<1>5. walk' \in Walk
  BY TornType DEF Commit, CatalogueType
<1>6. UNCHANGED <<call, name, found>>
  BY DEF Commit
<1>7. QED
  BY <1>1, <1>2, <1>3, <1>4, <1>5, <1>6 DEF CatalogueType
-----------------------------------------------------------------------------
(* The rows of the open transactions, and the unique columns.              *)

\* Whoever has inserted something is between its first INSERT and its commit;
\* whoever has a row has committed; and a slug is inserted by one transaction
\* only, and by none once it is committed.
Staging ==
  /\ \A c \in Creator : staged[c] # {} => pc[c] \in {"corpora", "benchmark", "insert", "commit"}
  /\ \A c \in Creator : "benchmark" \in staged[c] => pc[c] = "commit"
  /\ \A w \in Writer : staged[w] \subseteq {"benchmark"}
  /\ \A w \in Writer : pc[w] = "commit" => "benchmark" \in staged[w]
  /\ \A r \in rows : pc[r] \in {"201", "500", "seeded"}
  /\ \A r \in corpora : pc[r] = "seeded"

SlugInv ==
  /\ \A c, d \in Creator :
       "benchmark" \in staged[c] \cap staged[d] /\ SlugOf(c) = SlugOf(d) => c = d
  /\ \A c \in Creator : "benchmark" \in staged[c] => \A r \in rows : SlugOf(r) # SlugOf(c)
  /\ SlugIsUnique

\* A run of seed.py has, or finds, what the steps behind it were about; the
\* account is new only when one run has inserted it, and the corpus with it.
Seeding ==
  /\ \A s \in Seeder :
       /\ pc[s] \in {"corpora", "benchmark", "insert", "commit", "seeded"} =>
            account # "none" \/ "account" \in staged[s]
       /\ pc[s] \in {"benchmark", "insert", "commit", "seeded"} =>
            corpora # {} \/ "corpus" \in staged[s]
       /\ pc[s] \in {"commit", "seeded"} => Listed(SeedSlug) # {} \/ "benchmark" \in staged[s]
  /\ \A c \in Creator : "account" \in staged[c] => account = "none"
  /\ \A c, d \in Creator : "account" \in staged[c] \cap staged[d] => c = d
  /\ account # "old" => \A c \in Creator : "corpus" \in staged[c] => "account" \in staged[c]
  /\ account = "none" => corpora = {}
  /\ account = "new" => \E s \in Seeder : corpora = {s}

TableInv == CatalogueType /\ Staging /\ SlugInv /\ AnswerTellsSlug /\ Seeding

LEMMA TableInit == Init => TableInv
<1> SUFFICES ASSUME Init PROVE TableInv
  OBVIOUS
<1>1. NotWalking \in Walk
  BY DEF NotWalking, Walk, Order
<1>2. CatalogueType
  BY <1>1, FS_EmptySet DEF Init, CatalogueType, Here, Account, Process
<1>3. Staging /\ SlugInv /\ AnswerTellsSlug /\ Seeding
  BY <1>2 DEF Init, Staging, SlugInv, SlugIsUnique, AnswerTellsSlug, Seeding, CatalogueType,
     Process, Creator
<1>4. QED
  BY <1>2, <1>3 DEF TableInv

\* Steps that no creator makes.
LEMMA TableQuiet ==
  ASSUME TableInv, CatalogueType', UNCHANGED <<call, staged, rows, account, corpora>>,
         \A c \in Creator : pc'[c] = pc[c]
  PROVE  TableInv'
<1> USE DEF TableInv, Creator
<1>1. Staging'
  BY DEF Staging, CatalogueType
<1>2. SlugInv'
  BY DEF SlugInv, SlugIsUnique, SlugOf
<1>3. AnswerTellsSlug' /\ Seeding'
  BY DEF AnswerTellsSlug, Seeding, Listed, SlugOf
<1>4. QED
  BY <1>1, <1>2, <1>3

\* A client chooses its slug, and has looked whether it is listed.
LEMMA TableChosen ==
  ASSUME TableInv, CatalogueType', NEW w \in Writer, NEW to \in {"start", "insert", "409", "ready"},
         pc[w] \in {"look", "start"}, GoTo(w, to),
         \A v \in Writer \ {w} : call'[v] = call[v],
         to \in {"409", "ready"} => Listed(SlugOf(w)') # {},
         UNCHANGED <<staged, rows, account, corpora>>
  PROVE  TableInv'
<1> USE DEF TableInv, Creator
<1>1. /\ pc'[w] = to /\ \A c \in Creator \ {w} : pc'[c] = pc[c]
      /\ \A c \in Creator \ {w} : SlugOf(c)' = SlugOf(c)
      /\ w \notin Seeder /\ w \notin rows /\ w \notin corpora /\ staged[w] = {}
  BY DEF GoTo, CatalogueType, Process, SlugOf, Staging
<1>2. \A slug : Listed(slug)' = Listed(slug)
  BY <1>1 DEF Listed, CatalogueType
<1>3. Staging'
  BY <1>1, SMTT(30) DEF Staging, CatalogueType
<1>4. SlugInv'
  BY <1>1 DEF SlugInv, SlugIsUnique, CatalogueType
<1>5. AnswerTellsSlug'
  BY <1>1, <1>2 DEF AnswerTellsSlug
<1>6. Seeding'
  BY <1>1, <1>2, ZenonT(30) DEF Seeding, CatalogueType
<1>7. QED
  BY <1>3, <1>4, <1>5, <1>6

\* A transaction that leaves nothing behind.
LEMMA TableUndone ==
  ASSUME TableInv, CatalogueType', NEW c \in Creator, NEW to \in {"409", "500", "crashed"},
         pc[c] \in {"newaccount", "corpora", "benchmark", "insert", "commit"}, GoTo(c, to),
         staged' = [staged EXCEPT ![c] = {}],
         c \in Writer => to # "crashed",
         c \in Seeder => to = "crashed",
         to = "409" => Listed(SlugOf(c)) # {},
         UNCHANGED <<call, rows, account, corpora>>
  PROVE  TableInv'
<1> USE DEF TableInv, Creator
<1>1. /\ pc'[c] = to /\ \A d \in Creator \ {c} : pc'[d] = pc[d]
      /\ staged'[c] = {} /\ \A d \in Creator \ {c} : staged'[d] = staged[d]
      /\ c \notin rows /\ c \notin corpora
  BY DEF GoTo, CatalogueType, Process, Staging
<1>2. /\ \A d : SlugOf(d)' = SlugOf(d)
      /\ \A slug : Listed(slug)' = Listed(slug)
  BY DEF Listed, SlugOf
<1>3. Staging'
  BY <1>1, SMTT(30) DEF Staging, CatalogueType
<1>4. SlugInv'
  BY <1>1, <1>2 DEF SlugInv, SlugIsUnique, CatalogueType
<1>5. AnswerTellsSlug'
  BY <1>1, <1>2 DEF AnswerTellsSlug
<1>6. Seeding'
  BY <1>1, <1>2 DEF Seeding, CatalogueType
<1>7. QED
  BY <1>3, <1>4, <1>5, <1>6

\* The INSERT of a benchmark that no row and no open transaction has.
LEMMA TableInserted ==
  ASSUME TableInv, CatalogueType', NEW c \in Creator, pc[c] = "insert", GoTo(c, "commit"),
         staged' = [staged EXCEPT ![c] = @ \cup {"benchmark"}],
         Rivals(c, "benchmark") = {}, ~Taken(c, "benchmark"),
         UNCHANGED <<call, rows, account, corpora>>
  PROVE  TableInv'
<1> USE DEF TableInv, Creator
<1>1. /\ pc'[c] = "commit" /\ \A d \in Creator \ {c} : pc'[d] = pc[d]
      /\ staged'[c] = staged[c] \cup {"benchmark"}
      /\ \A d \in Creator \ {c} : staged'[d] = staged[d]
      /\ c \notin rows /\ c \notin corpora
  BY DEF GoTo, CatalogueType, Process, Staging
<1>2. /\ \A d : SlugOf(d)' = SlugOf(d)
      /\ \A slug : Listed(slug)' = Listed(slug)
  BY DEF Listed, SlugOf
<1>3. /\ \A d \in Creator \ {c} : "benchmark" \in staged[d] => SlugOf(d) # SlugOf(c)
      /\ \A r \in rows : SlugOf(r) # SlugOf(c)
  BY DEF Rivals, Taken, Unique, Listed
<1>4. Staging'
  BY <1>1, SMTT(30) DEF Staging, CatalogueType
<1>5. SlugInv'
  BY <1>1, <1>2, <1>3 DEF SlugInv, SlugIsUnique, CatalogueType
<1>6. AnswerTellsSlug'
  BY <1>1, <1>2 DEF AnswerTellsSlug
<1>7. Seeding'
  BY <1>1, <1>2 DEF Seeding, CatalogueType
<1>8. QED
  BY <1>4, <1>5, <1>6, <1>7

\* A run of seed.py moves on; it may insert the account, or a corpus.
LEMMA TableSeeds ==
  ASSUME TableInv, CatalogueType', NEW s \in Seeder, NEW new \in SUBSET {"account", "corpus"},
         NEW to \in {"newaccount", "corpora", "benchmark", "insert", "commit"}, GoTo(s, to),
         pc[s] \in {"start", "newaccount", "corpora", "benchmark"},
         staged' = [staged EXCEPT ![s] = @ \cup new],
         new # {} => to \in {"corpora", "benchmark"},
         "account" \in new => account = "none" /\ Rivals(s, "account") = {},
         "corpus" \in new => corpora = {} /\ pc[s] = "corpora",
         pc[s] \in {"start", "newaccount"} =>
           /\ to \in {"newaccount", "corpora"}
           /\ to = "corpora" => account # "none" \/ "account" \in new,
         pc[s] = "corpora" =>
           /\ to = "benchmark"
           /\ corpora # {} \/ "corpus" \in new,
         pc[s] = "benchmark" =>
           /\ to \in {"insert", "commit"}
           /\ to = "commit" => Listed(SeedSlug) # {},
         UNCHANGED <<call, rows, account, corpora>>
  PROVE  TableInv'
<1> USE DEF TableInv, Creator
<1>1. /\ pc'[s] = to /\ \A d \in Creator \ {s} : pc'[d] = pc[d]
      /\ staged'[s] = staged[s] \cup new /\ \A d \in Creator \ {s} : staged'[d] = staged[d]
      /\ s \notin rows /\ s \notin corpora /\ s \notin Writer
      /\ "benchmark" \notin staged'[s]
  BY DEF GoTo, CatalogueType, Process, Staging
<1>2. /\ \A d : SlugOf(d)' = SlugOf(d)
      /\ \A slug : Listed(slug)' = Listed(slug)
  BY DEF Listed, SlugOf
<1>3. "account" \in new => \A d \in Creator \ {s} : "account" \notin staged[d]
  BY DEF Rivals, Unique
<1>4. Staging'
  BY <1>1 DEF Staging, CatalogueType
<1>5. SlugInv'
  BY <1>1, <1>2 DEF SlugInv, SlugIsUnique, CatalogueType
<1>6. AnswerTellsSlug'
  BY <1>1, <1>2 DEF AnswerTellsSlug
<1>7. Seeding'
  <2>1. \A r \in Seeder : pc'[r] \in {"corpora", "benchmark", "insert", "commit", "seeded"} =>
          account # "none" \/ "account" \in staged'[r]
    BY <1>1 DEF Seeding, CatalogueType
  <2>2. \A r \in Seeder : pc'[r] \in {"benchmark", "insert", "commit", "seeded"} =>
          corpora # {} \/ "corpus" \in staged'[r]
    BY <1>1 DEF Seeding, CatalogueType
  <2>3. \A r \in Seeder : pc'[r] \in {"commit", "seeded"} =>
          Listed(SeedSlug) # {} \/ "benchmark" \in staged'[r]
    BY <1>1 DEF Seeding, CatalogueType
  <2>4. /\ \A c \in Creator : "account" \in staged'[c] => account = "none"
        /\ \A c, d \in Creator : "account" \in staged'[c] \cap staged'[d] => c = d
    BY <1>1, <1>3 DEF Seeding, CatalogueType
  <2>5. account # "old" =>
          \A c \in Creator : "corpus" \in staged'[c] => "account" \in staged'[c]
    <3>1. ASSUME "corpus" \in new, account # "old" PROVE "account" \in staged[s]
      BY <3>1 DEF Seeding, CatalogueType, Account
    <3>2. QED
      BY <1>1, <3>1 DEF Seeding
  <2>6. QED
    BY <1>2, <2>1, <2>2, <2>3, <2>4, <2>5 DEF Seeding
<1>8. QED
  BY <1>4, <1>5, <1>6, <1>7

\* The commit: what was staged becomes visible, all at once.
LEMMA TableCommitted ==
  ASSUME TableInv, CatalogueType', NEW c \in Creator, NEW to \in {"201", "500", "seeded"},
         pc[c] = "commit", Commit(c, to),
         c \in Writer <=> to # "seeded"
  PROVE  TableInv'
<1> USE DEF TableInv, Creator
<1>1. /\ pc'[c] = to /\ \A d \in Creator \ {c} : pc'[d] = pc[d]
      /\ staged'[c] = {} /\ \A d \in Creator \ {c} : staged'[d] = staged[d]
      /\ c \notin rows /\ c \notin corpora
  BY DEF Commit, GoTo, CatalogueType, Process, Staging
<1>2. /\ rows' = IF "benchmark" \in staged[c] THEN rows \cup {c} ELSE rows
      /\ account' = IF "account" \in staged[c] THEN "new" ELSE account
      /\ corpora' = IF "corpus" \in staged[c] THEN corpora \cup {c} ELSE corpora
      /\ UNCHANGED call
  BY DEF Commit, Visible
<1>3. /\ \A d : SlugOf(d)' = SlugOf(d)
      /\ \A slug : Listed(slug) \subseteq Listed(slug)'
      /\ "benchmark" \in staged[c] => c \in Listed(SlugOf(c))'
  BY <1>2 DEF Listed, SlugOf
<1>4. Staging'
  BY <1>1, <1>2, ZenonT(30) DEF Staging, CatalogueType
<1>5. SlugInv'
  BY <1>1, <1>2, <1>3 DEF SlugInv, SlugIsUnique, CatalogueType
<1>6. AnswerTellsSlug'
  BY <1>1, <1>2, <1>3 DEF AnswerTellsSlug, Staging
<1>7. Seeding'
  <2>1. \A r \in Seeder : pc'[r] \in {"corpora", "benchmark", "insert", "commit", "seeded"} =>
          account' # "none" \/ "account" \in staged'[r]
    BY <1>1, <1>2 DEF Seeding, CatalogueType
  <2>2. \A r \in Seeder : pc'[r] \in {"benchmark", "insert", "commit", "seeded"} =>
          corpora' # {} \/ "corpus" \in staged'[r]
    BY <1>1, <1>2 DEF Seeding, CatalogueType
  <2>3. \A r \in Seeder : pc'[r] \in {"commit", "seeded"} =>
          Listed(SeedSlug)' # {} \/ "benchmark" \in staged'[r]
    BY <1>1, <1>2, <1>3 DEF Seeding, CatalogueType, SlugOf
  <2>4. /\ \A d \in Creator : "account" \in staged'[d] => account' = "none"
        /\ \A d, e \in Creator : "account" \in staged'[d] \cap staged'[e] => d = e
    BY <1>1, <1>2 DEF Seeding, CatalogueType
  <2>5. account' # "old" =>
          \A d \in Creator : "corpus" \in staged'[d] => "account" \in staged'[d]
    BY <1>1, <1>2 DEF Seeding, CatalogueType
  <2>6. account' = "none" => corpora' = {}
    BY <1>1, <1>2 DEF Seeding, CatalogueType
  <2>7. account' = "new" => \E s \in Seeder : corpora' = {s}
    <3>1. CASE "account" \in staged[c]
      <4>1. c \in Seeder
        BY <3>1 DEF Staging
      <4>2. corpora = {}
        BY <3>1 DEF Seeding
      <4>3. "corpus" \in staged[c]
        BY <4>1, <4>2 DEF Seeding
      <4>4. QED
        BY <1>2, <4>1, <4>2, <4>3
    <3>2. CASE "account" \notin staged[c]
      <4>1. account = "new" => "corpus" \notin staged[c]
        BY <3>2 DEF Seeding
      <4>2. QED
        BY <1>2, <3>2, <4>1 DEF Seeding
    <3>3. QED
      BY <3>1, <3>2
  <2>8. QED
    BY <2>1, <2>2, <2>3, <2>4, <2>5, <2>6, <2>7 DEF Seeding
<1>8. QED
  BY <1>4, <1>5, <1>6, <1>7

\* The flush of an INSERT: either it is staged or the transaction is undone.
LEMMA TableFlush ==
  ASSUME TableInv, NEW c \in Creator, NEW thing \in {"account", "benchmark"},
         NEW next, NEW failure, Flush(c, thing, next, failure),
         pc[c] = IF thing = "account" THEN "newaccount" ELSE "insert",
         next = IF thing = "account" THEN "corpora" ELSE "commit",
         failure = IF c \in Seeder THEN "crashed" ELSE "409",
         thing = "account" => c \in Seeder
  PROVE  TableInv'
<1>1. CatalogueType'
  BY FlushType DEF TableInv, Thing, Here
<1>2. UNCHANGED <<call, rows, account, corpora>> /\ Rivals(c, thing) = {}
  BY DEF Flush
<1>3. CASE Taken(c, thing)
  <2>1. /\ GoTo(c, failure) /\ staged' = [staged EXCEPT ![c] = {}]
    BY <1>3 DEF Flush
  <2>2. thing = "benchmark" => Listed(SlugOf(c)) # {}
    BY <1>3 DEF Taken
  <2>3. failure \in {"409", "500", "crashed"} /\ (failure = "409" => thing = "benchmark")
    OBVIOUS
  <2>4. c \in Writer <=> c \notin Seeder
    BY DEF Creator
  <2>5. QED
    BY <1>1, <1>2, <2>1, <2>2, <2>3, <2>4, TableUndone
<1>4. CASE ~Taken(c, thing) /\ thing = "benchmark"
  BY <1>1, <1>2, <1>4, TableInserted DEF Flush
<1>5. CASE ~Taken(c, thing) /\ thing = "account"
  <2>1. /\ GoTo(c, "corpora") /\ staged' = [staged EXCEPT ![c] = @ \cup {"account"}]
        /\ account = "none" /\ c \in Seeder
    BY <1>5 DEF Flush, Taken, Unique
  <2>2. QED
    BY <1>1, <1>2, <1>5, <2>1, TableSeeds
<1>6. QED
  BY <1>3, <1>4, <1>5

LEMMA TableRollback ==
  ASSUME TableInv, NEW c \in Creator, NEW next, Rollback(c, next),
         pc[c] \in {"newaccount", "corpora", "benchmark", "insert", "commit"},
         next = IF c \in Seeder THEN "crashed" ELSE "500"
  PROVE  TableInv'
<1>1. CatalogueType'
  BY RollbackType DEF TableInv, Here
<1>2. /\ GoTo(c, next) /\ staged' = [staged EXCEPT ![c] = {}]
      /\ UNCHANGED <<call, rows, account, corpora>>
  BY DEF Rollback
<1>3. c \in Writer <=> c \notin Seeder
  BY DEF Creator
<1>4. QED
  BY <1>1, <1>2, <1>3, TableUndone

LEMMA TableStep == TableInv /\ [Next]_vars => TableInv'
<1> SUFFICES ASSUME TableInv, [Next]_vars PROVE TableInv'
  OBVIOUS
<1>t. /\ CatalogueType
      /\ Writer \subseteq Creator /\ Seeder \subseteq Creator
      /\ Creator \subseteq Process /\ Patcher \subseteq Process /\ Patcher \cap Creator = {}
      /\ \A w \in Writer : w \notin Seeder
  BY DEF TableInv, Process, Creator
<1>1. CASE UNCHANGED vars \/ Finished
  <2>1. UNCHANGED vars
    BY <1>1 DEF Finished
  <2>2. CatalogueType'
    BY <1>t, <2>1 DEF CatalogueType, vars, procVars, dbVars
  <2>3. QED
    BY <2>1, <2>2, TableQuiet DEF vars, procVars, dbVars
<1>2. ASSUME NEW w \in Writer, Look(w) PROVE TableInv'
  <2>1. PICK q \in Request : /\ call' = [call EXCEPT ![w] = q]
                             /\ \/ GoTo(w, IF Listed(q.slug) # {} THEN "ready" ELSE "start")
                                \/ GoTo(w, "start")
    BY <1>2 DEF Look
  <2>2. /\ pc[w] = "look"
        /\ UNCHANGED <<started, staged, rows, name, account, corpora, found, walk>>
    BY <1>2 DEF Look, At, dbVars
  <2>3. PICK to \in {"start", "ready"} : GoTo(w, to) /\ (to = "ready" => Listed(q.slug) # {})
    BY <2>1
  <2>4. CatalogueType'
    BY <1>t, <2>1, <2>2, <2>3 DEF CatalogueType, GoTo, Here
  <2>5. SlugOf(w)' = q.slug /\ \A v \in Writer \ {w} : call'[v] = call[v]
    BY <1>t, <2>1 DEF CatalogueType, SlugOf
  <2>6. QED
    BY <2>2, <2>3, <2>4, <2>5, TableChosen
<1>3. ASSUME NEW w \in Writer, CheckSlug(w) PROVE TableInv'
  <2>1. PICK q \in (IF w \in Cli THEN {call[w]} ELSE Request) :
          /\ call' = [call EXCEPT ![w] = q]
          /\ IF Listed(q.slug) # {}
               THEN GoTo(w, "409") /\ UNCHANGED started
               ELSE GoTo(w, "insert") /\ Begin(w)
    BY <1>3 DEF CheckSlug
  <2>2. pc[w] = "start" /\ UNCHANGED <<staged, rows, name, account, corpora, found, walk>>
    BY <1>3 DEF CheckSlug, At
  <2>3. PICK to \in {"insert", "409"} : GoTo(w, to) /\ (to = "409" => Listed(q.slug) # {})
    BY <2>1
  <2>4. call' \in [Writer -> Request \cup {NoCall}]
    BY <1>t, <2>1 DEF CatalogueType
  <2>5. started' \in Seq(Creator)
    BY <1>t, <2>1 DEF Begin, CatalogueType
  <2>6. CatalogueType'
    BY <1>t, <2>2, <2>3, <2>4, <2>5 DEF CatalogueType, GoTo, Here
  <2>7. SlugOf(w)' = q.slug /\ \A v \in Writer \ {w} : call'[v] = call[v]
    BY <1>t, <2>1 DEF CatalogueType, SlugOf
  <2>8. QED
    BY <2>2, <2>3, <2>6, <2>7, TableChosen
<1>4. ASSUME NEW w \in Writer, Insert(w) PROVE TableInv'
  BY <1>4, <1>t, TableFlush DEF Insert, At, Violation
<1>5. ASSUME NEW w \in Writer, CommitBenchmark(w) PROVE TableInv'
  <2>1. PICK answer \in {"201", "500"} : Commit(w, answer)
    BY <1>5 DEF CommitBenchmark
  <2>2. "corpus" \notin staged[w] /\ pc[w] = "commit"
    BY <1>5 DEF TableInv, Staging, CommitBenchmark, At
  <2>3. CatalogueType'
    BY <1>t, <2>1, <2>2, CommitType DEF Here
  <2>4. QED
    BY <1>t, <2>1, <2>2, <2>3, TableCommitted
<1>6. ASSUME NEW w \in Writer, CreateFails(w) PROVE TableInv'
  BY <1>6, <1>t, TableRollback DEF CreateFails
<1>7. ASSUME NEW p \in Patcher, Patch(p) PROVE TableInv'
  <2>1. /\ UNCHANGED <<call, started, staged, rows, account, corpora>>
        /\ \E to \in Here : GoTo(p, to)
    BY <1>7 DEF Patch, Load, Save, dbVars, Here
  <2>2. /\ pc' \in [Process -> Here]
        /\ \A c \in Creator : pc'[c] = pc[c]
    BY <1>t, <2>1 DEF GoTo, CatalogueType
  <2>3. name' \in [Creator -> {Early, Late}] /\ walk' \in Walk
    BY <1>7, <1>t, TornType DEF Patch, Load, Save, dbVars, CatalogueType
  <2>4. found' \in [Patcher -> Creator \cup {Nobody}]
    BY <1>7, <1>t DEF Patch, Load, Save, CatalogueType, Listed
  <2>5. CatalogueType'
    BY <1>t, <2>1, <2>2, <2>3, <2>4 DEF CatalogueType
  <2>6. QED
    BY <2>1, <2>2, <2>5, TableQuiet
<1>8. ASSUME NEW s \in Seeder, SeedAccount(s) PROVE TableInv'
  <2>1. /\ pc[s] = "start"
        /\ UNCHANGED <<call, staged, rows, name, account, corpora, found, walk>>
        /\ started' = Append(started, s)
    BY <1>8 DEF SeedAccount, At, Begin
  <2>2. PICK to \in {"newaccount", "corpora"} :
          GoTo(s, to) /\ (to = "corpora" => account # "none")
    BY <1>8 DEF SeedAccount
  <2>3. CatalogueType'
    BY <1>t, <2>1, <2>2 DEF CatalogueType, GoTo, Here
  <2>4. staged' = [staged EXCEPT ![s] = @ \cup {}]
    BY <1>t, <2>1 DEF CatalogueType
  <2>5. QED
    BY <2>1, <2>2, <2>3, <2>4, TableSeeds
<1>9. ASSUME NEW s \in Seeder, NewAccount(s) PROVE TableInv'
  BY <1>9, <1>t, TableFlush DEF NewAccount, At
<1>10. ASSUME NEW s \in Seeder, SeedCorpora(s) PROVE TableInv'
  <2>1. /\ pc[s] = "corpora" /\ GoTo(s, "benchmark")
        /\ UNCHANGED <<call, started, rows, name, account, corpora, found, walk>>
    BY <1>10 DEF SeedCorpora, At
  <2>2. PICK new \in {{}, {"corpus"}} :
          /\ staged' = [staged EXCEPT ![s] = @ \cup new]
          /\ "corpus" \in new <=> corpora = {}
    <3>1. CASE corpora = {}
      <4>1. staged' = [staged EXCEPT ![s] = @ \cup {"corpus"}]
        BY <1>10, <3>1 DEF SeedCorpora, AddsCorpus
      <4>2. QED
        BY <3>1, <4>1
    <3>2. CASE corpora # {}
      <4>1. staged' = [staged EXCEPT ![s] = @ \cup {}]
        BY <1>10, <1>t, <3>2 DEF SeedCorpora, AddsCorpus, CatalogueType
      <4>2. QED
        BY <3>2, <4>1
    <3>3. QED
      BY <3>1, <3>2
  <2>3. CatalogueType'
    BY <1>t, <2>1, <2>2 DEF CatalogueType, GoTo, Here, Thing
  <2>4. QED
    BY <2>1, <2>2, <2>3, TableSeeds
<1>11. ASSUME NEW s \in Seeder, SeedBenchmark(s) PROVE TableInv'
  <2>1. /\ pc[s] = "benchmark"
        /\ UNCHANGED <<call, started, staged, rows, name, account, corpora, found, walk>>
    BY <1>11 DEF SeedBenchmark, At, dbVars
  <2>2. PICK to \in {"insert", "commit"} :
          GoTo(s, to) /\ (to = "commit" => Listed(SeedSlug) # {})
    BY <1>11 DEF SeedBenchmark
  <2>3. CatalogueType'
    BY <1>t, <2>1, <2>2 DEF CatalogueType, GoTo, Here
  <2>4. staged' = [staged EXCEPT ![s] = @ \cup {}]
    BY <1>t, <2>1 DEF CatalogueType
  <2>5. QED
    BY <2>1, <2>2, <2>3, <2>4, TableSeeds
<1>12. ASSUME NEW s \in Seeder, NewBenchmark(s) PROVE TableInv'
  BY <1>12, <1>t, TableFlush DEF NewBenchmark, At
<1>13. ASSUME NEW s \in Seeder, SeedCommit(s) PROVE TableInv'
  <2>1. pc[s] = "commit" /\ Commit(s, "seeded")
    BY <1>13 DEF SeedCommit, At
  <2>2. CatalogueType'
    BY <1>t, <2>1, CommitType DEF Here
  <2>3. QED
    BY <1>t, <2>1, <2>2, TableCommitted
<1>14. ASSUME NEW s \in Seeder, SeedFails(s) PROVE TableInv'
  BY <1>14, <1>t, TableRollback DEF SeedFails
<1>15. CASE Read
  <2>1. UNCHANGED <<call, pc, started, staged, rows, name, account, corpora, found>>
    BY <1>15 DEF Read, Count, ReadPage, StartWalk, procVars, dbVars
  <2>2. Cardinality(rows) \in Nat
    BY <1>t, FS_CardinalityType DEF CatalogueType
  <2>3. walk' \in Walk
    <3>1. walk \in Walk /\ rows \in SUBSET Creator
      BY <1>t DEF CatalogueType
    <3>2. ASSUME NEW by \in Order, StartWalk(by) PROVE walk' \in Walk
      BY <2>2, <3>1, <3>2 DEF StartWalk, Counted, NotWalking, Walk
    <3>3. CASE Count
      BY <2>2, <3>1, <3>3 DEF Count, Counted, Walk
    <3>4. CASE ReadPage
      <4> DEFINE missed == walk.missed \ Page(walk.by, walk.page)
      <4>1. missed \in SUBSET Creator
        BY <3>1 DEF Walk
      <4>2. \/ walk' = [NotWalking EXCEPT !.at = "ended", !.missed = missed]
            \/ walk' = [walk EXCEPT !.at = "count", !.page = @ + 1, !.missed = missed]
        BY <3>4 DEF ReadPage
      <4> HIDE DEF missed
      <4>3. [NotWalking EXCEPT !.at = "ended", !.missed = missed] \in Walk
        BY <4>1 DEF Walk, NotWalking, Order
      <4>4. [walk EXCEPT !.at = "count", !.page = @ + 1, !.missed = missed] \in Walk
        <5>1. walk.page + 1 \in Nat
          BY <3>1 DEF Walk
        <5>2. [walk EXCEPT !.at = "count", !.page = walk.page + 1, !.missed = missed] \in Walk
          BY <3>1, <4>1, <5>1 DEF Walk
        <5>3. QED
          BY <3>1, <5>2 DEF Walk
      <4>5. QED
        BY <4>2, <4>3, <4>4
    <3>5. QED
      BY <1>15, <3>2, <3>3, <3>4 DEF Read
  <2>4. CatalogueType'
    BY <1>t, <2>1, <2>3 DEF CatalogueType
  <2>5. QED
    BY <2>1, <2>4, TableQuiet
<1>16. QED
  BY <1>1, <1>2, <1>3, <1>4, <1>5, <1>6, <1>7, <1>8, <1>9, <1>10, <1>11, <1>12, <1>13,
     <1>14, <1>15 DEF Next, Create, Seed

LEMMA Table == Spec => []TableInv
  BY TableInit, TableStep, PTL DEF Spec

\* Every variable keeps its type, whatever commits, fails or waits.
THEOREM TypeCorrect == Spec => []TypeOK
<1>1. TableInv => TypeOK
  BY TypeIsType DEF TableInv
<1>2. QED
  BY <1>1, Table, PTL

\* models/benchmark.py:24: however creations and seedings interleave between
\* their look and their INSERT, committed benchmarks have distinct slugs.
THEOREM SlugsAreUnique == Spec => []SlugIsUnique
<1>1. TableInv => SlugIsUnique
  BY DEF TableInv, SlugInv
<1>2. QED
  BY <1>1, Table, PTL

\* benchmarks.py:130, errors.py:130: a 201, a 409 and a CLI that goes on to
\* its upload each say what became of the slug.
THEOREM AnswersTellSlugs == Spec => []AnswerTellsSlug
<1>1. TableInv => AnswerTellsSlug
  BY DEF TableInv
<1>2. QED
  BY <1>1, Table, PTL

\* seed.py:259-356: a run that ends well leaves all there is to seed, one that
\* fails nothing, and the runs that seed an empty database one corpus.
THEOREM SeedsConverge == Spec => []SeedConverges
<1>1. ASSUME TableInv PROVE SeedConverges
  <2>1. ASSUME NEW s \in Seeder
        PROVE  /\ pc[s] = "seeded" =>
                    account # "none" /\ corpora # {} /\ Listed(SeedSlug) # {}
               /\ pc[s] = "crashed" => s \notin rows \cup corpora
    BY <1>1 DEF TableInv, Seeding, Staging, Creator
  <2>2. ASSUME account = "new" PROVE Cardinality(corpora) <= 1
    <3>1. PICK s \in Seeder : corpora = {s}
      BY <1>1, <2>2 DEF TableInv, Seeding
    <3>2. Cardinality(corpora) = 1
      BY <3>1, FS_Singleton
    <3>3. QED
      BY <3>2
  <2>3. QED
    BY <2>1, <2>2 DEF SeedConverges
<1>2. QED
  BY <1>1, Table, PTL
-----------------------------------------------------------------------------
(* The listing, page after page.                                           *)

\* How many rows the listing has before r.
Place(by, r) == Cardinality({s \in rows : Before(by, s, r)})

\* No transaction is in the order twice, and whoever has not begun is not.
OrderInv ==
  /\ \A i, j \in DOMAIN started : started[i] = started[j] => i = j
  /\ \A i \in DOMAIN started : pc[started[i]] \notin {"look", "start"}

\* What the client may still miss is behind the pages that it has read.
WalkInv ==
  /\ walk.page >= 1
  /\ walk.at \in {"count", "page"} =>
       /\ walk.missed \subseteq rows
       /\ \A r \in walk.missed : Place(walk.by, r) >= Offset(walk.page)
  /\ walk.at = "page" => walk.total = Counted
  /\ WalkIsComplete

\* A row that appears in the listing only moves the others back.
LEMMA PlacesGrow ==
  ASSUME IsFiniteSet(rows'), rows \subseteq rows', NEW by, NEW r,
         \A s \in rows : Before(by, s, r) => Before(by, s, r)'
  PROVE  Place(by, r) <= Place(by, r)'
<1>1. {s \in rows : Before(by, s, r)} \subseteq {s \in rows : Before(by, s, r)}'
  OBVIOUS
<1>2. IsFiniteSet({s \in rows : Before(by, s, r)}')
  BY FS_Subset
<1>3. QED
  BY <1>1, <1>2, FS_Subset DEF Place

\* Nothing is before itself, so the last place is one less than the total.
LEMMA PlaceIsSmall ==
  ASSUME CatalogueType, OrderInv, NEW by \in Order, NEW r \in rows
  PROVE  Place(by, r) \in Nat /\ Counted \in Nat /\ Place(by, r) < Counted
<1> DEFINE ahead == {s \in rows : Before(by, s, r)}
<1>1. ~Created(r, r)
  BY DEF Created, OrderInv, CatalogueType
<1>2. ~Named(r, r)
  <2>1. r \in Creator /\ name[r] \in {1, 2}
    BY DEF CatalogueType, Early, Late
  <2>2. CASE r \in Seeder
    BY <2>1, <2>2 DEF Named, SlugOf
  <2>3. CASE r \notin Seeder
    <3>1. call[r] \in Request \cup {NoCall}
      BY <2>1, <2>3 DEF CatalogueType, Creator
    <3>2. call[r].slug \in Nat
      <4>1. CASE call[r] \in Request
        BY <4>1 DEF Request
      <4>2. CASE call[r] = NoCall
        BY <4>2 DEF NoCall
      <4>3. QED
        BY <3>1, <4>1, <4>2
    <3>3. QED
      BY <2>1, <2>3, <3>2 DEF Named, SlugOf
  <2>4. QED
    BY <2>2, <2>3
<1>3. r \notin ahead
  BY <1>1, <1>2 DEF Before
<1>4. IsFiniteSet(rows) /\ ahead \subseteq rows /\ ahead # rows
  BY <1>3 DEF CatalogueType
<1>5. QED
  BY <1>4, FS_Subset, FS_CardinalityType DEF Place, Counted

\* What a step may do to the order of the transactions.
Ordered ==
  /\ \A c \in Creator : pc[c] \notin {"look", "start"} => pc'[c] \notin {"look", "start"}
  /\ \/ UNCHANGED started
     \/ \E c \in Creator : pc[c] = "start" /\ pc'[c] \notin {"look", "start"} /\ Begin(c)
     \/ \E c \in Creator : c \notin rows /\ Withdraw(c)

\* What it may do to the listing that a client is reading.
Relisted ==
  /\ rows \subseteq rows'
  /\ \A r \in rows : SlugOf(r)' = SlugOf(r)
  /\ \/ walk' = Torn
     \/ /\ UNCHANGED walk
        /\ walk.at = "page" => rows' = rows
        /\ walk.at \in {"count", "page"} /\ walk.by = "name" => UNCHANGED name
     \/ Read

\* A flush, a rollback and a commit move a creator that has begun.
LEMMA ClosingSteps ==
  ASSUME TableInv, NEW c \in Creator, c \notin rows, pc[c] \notin {"look", "start"},
         NEW to \in Here \ {"look", "start"}, GoTo(c, to),
         UNCHANGED started \/ Withdraw(c)
  PROVE  Ordered
<1>1. \A d \in Creator : pc'[d] \in {pc[d], to}
  BY DEF GoTo, TableInv, CatalogueType, Process
<1>2. QED
  BY <1>1 DEF Ordered

LEMMA FlushCloses ==
  ASSUME TableInv, NEW c \in Creator, pc[c] \in {"insert", "newaccount"},
         NEW thing, NEW next \in {"commit", "corpora"}, NEW failure \in {"409", "crashed"},
         Flush(c, thing, next, failure)
  PROVE  Ordered /\ Relisted
<1>1. c \notin rows
  BY DEF TableInv, Staging
<1>2. /\ UNCHANGED <<call, rows, name, walk>>
      /\ \/ GoTo(c, failure) /\ Withdraw(c)
         \/ GoTo(c, next) /\ UNCHANGED started
  BY DEF Flush
<1>3. QED
  BY <1>1, <1>2, ClosingSteps DEF Relisted, SlugOf, Here

LEMMA RollbackCloses ==
  ASSUME TableInv, NEW c \in Creator,
         pc[c] \in {"newaccount", "corpora", "benchmark", "insert", "commit"},
         NEW next \in {"500", "crashed"}, Rollback(c, next)
  PROVE  Ordered /\ Relisted
<1>1. c \notin rows
  BY DEF TableInv, Staging
<1>2. UNCHANGED <<call, rows, name, walk>> /\ GoTo(c, next) /\ Withdraw(c)
  BY DEF Rollback
<1>3. QED
  BY <1>1, <1>2, ClosingSteps DEF Relisted, SlugOf, Here

LEMMA CommitCloses ==
  ASSUME TableInv, NEW c \in Creator, pc[c] = "commit",
         NEW next \in {"201", "500", "seeded"}, Commit(c, next)
  PROVE  Ordered /\ Relisted
<1>1. c \notin rows
  BY DEF TableInv, Staging
<1>2. /\ UNCHANGED <<call, name>> /\ GoTo(c, next)
      /\ UNCHANGED started \/ Withdraw(c)
      /\ rows' = IF "benchmark" \in staged[c] THEN rows \cup {c} ELSE rows
      /\ walk' = IF walk.at = "page" /\ "benchmark" \in staged[c] THEN Torn ELSE walk
  BY DEF Commit, Visible
<1>3. QED
  BY <1>1, <1>2, ClosingSteps DEF Relisted, SlugOf, Here

LEMMA EveryStep ==
  ASSUME TableInv, [Next]_vars
  PROVE  Ordered /\ Relisted
<1>t. /\ CatalogueType /\ Staging
      /\ Writer \subseteq Creator /\ Seeder \subseteq Creator
      /\ Creator \subseteq Process /\ Patcher \subseteq Process /\ Patcher \cap Creator = {}
      /\ \A w \in Writer : w \notin Seeder
  BY DEF TableInv, Process, Creator
<1>1. CASE UNCHANGED vars \/ Finished
  BY <1>1 DEF Finished, vars, procVars, dbVars, Ordered, Relisted, SlugOf
<1>2. ASSUME NEW w \in Writer, Look(w) \/ CheckSlug(w) PROVE Ordered /\ Relisted
  <2>1. /\ pc[w] \in {"look", "start"} /\ w \notin rows
        /\ UNCHANGED <<rows, name, walk>>
        /\ \E q : call' = [call EXCEPT ![w] = q]
    BY <1>2, <1>t DEF Look, CheckSlug, At, dbVars, Staging
  <2>2. \A r \in rows : SlugOf(r)' = SlugOf(r)
    BY <1>t, <2>1 DEF SlugOf, CatalogueType, Creator
  <2>3. \/ UNCHANGED started
        \/ pc[w] = "start" /\ GoTo(w, "insert") /\ Begin(w)
    BY <1>2 DEF Look, CheckSlug, At, dbVars
  <2>4. \A c \in Creator \ {w} : pc'[c] = pc[c]
    BY <1>2, <1>t DEF Look, CheckSlug, GoTo, CatalogueType
  <2>5. GoTo(w, "insert") => pc'[w] = "insert"
    BY <1>t DEF GoTo, CatalogueType
  <2>6. Ordered
    <3>1. CASE UNCHANGED started
      BY <2>1, <2>4, <3>1 DEF Ordered
    <3>2. CASE pc[w] = "start" /\ GoTo(w, "insert") /\ Begin(w)
      BY <1>t, <2>4, <2>5, <3>2 DEF Ordered
    <3>3. QED
      BY <2>3, <3>1, <3>2
  <2>7. Relisted
    BY <2>1, <2>2 DEF Relisted
  <2>8. QED
    BY <2>6, <2>7
<1>3. ASSUME NEW w \in Writer, Insert(w) PROVE Ordered /\ Relisted
  BY <1>3, <1>t, FlushCloses DEF Insert, At, Violation
<1>4. ASSUME NEW w \in Writer, CommitBenchmark(w) PROVE Ordered /\ Relisted
  BY <1>4, <1>t, CommitCloses DEF CommitBenchmark, At
<1>5. ASSUME NEW w \in Writer, CreateFails(w) PROVE Ordered /\ Relisted
  BY <1>5, <1>t, RollbackCloses DEF CreateFails
<1>6. ASSUME NEW p \in Patcher, Patch(p) PROVE Ordered /\ Relisted
  <2>1. /\ UNCHANGED <<call, started, rows>>
        /\ \A c \in Creator : pc'[c] = pc[c]
    BY <1>6, <1>t DEF Patch, Load, Save, dbVars, GoTo, CatalogueType
  <2>2. \/ walk' = Torn
        \/ /\ UNCHANGED walk
           /\ walk.at \in {"count", "page"} /\ walk.by = "name" => UNCHANGED name
    BY <1>6 DEF Patch, Load, Save, dbVars
  <2>3. QED
    BY <2>1, <2>2 DEF Ordered, Relisted, SlugOf
<1>7. ASSUME NEW s \in Seeder, SeedAccount(s) PROVE Ordered /\ Relisted
  <2>1. /\ pc[s] = "start" /\ Begin(s) /\ UNCHANGED <<call, rows, name, walk>>
        /\ pc'[s] \in {"corpora", "newaccount"}
        /\ \A c \in Creator \ {s} : pc'[c] = pc[c]
    BY <1>7, <1>t DEF SeedAccount, At, GoTo, CatalogueType
  <2>2. QED
    BY <1>t, <2>1 DEF Ordered, Relisted, SlugOf
<1>8. ASSUME NEW s \in Seeder, NewAccount(s) PROVE Ordered /\ Relisted
  BY <1>8, <1>t, FlushCloses DEF NewAccount, At
<1>9. ASSUME NEW s \in Seeder, SeedCorpora(s) \/ SeedBenchmark(s) PROVE Ordered /\ Relisted
  <2>1. /\ pc[s] \in {"corpora", "benchmark"} /\ UNCHANGED <<call, started, rows, name, walk>>
        /\ \E to \in {"benchmark", "commit", "insert"} : GoTo(s, to)
    BY <1>9 DEF SeedCorpora, SeedBenchmark, At, dbVars
  <2>2. s \notin rows
    BY <1>t, <2>1 DEF Staging
  <2>3. QED
    BY <1>t, <2>1, <2>2, ClosingSteps DEF Relisted, SlugOf, Here
<1>10. ASSUME NEW s \in Seeder, NewBenchmark(s) PROVE Ordered /\ Relisted
  BY <1>10, <1>t, FlushCloses DEF NewBenchmark, At
<1>11. ASSUME NEW s \in Seeder, SeedCommit(s) PROVE Ordered /\ Relisted
  BY <1>11, <1>t, CommitCloses DEF SeedCommit, At
<1>12. ASSUME NEW s \in Seeder, SeedFails(s) PROVE Ordered /\ Relisted
  BY <1>12, <1>t, RollbackCloses DEF SeedFails
<1>13. CASE Read
  <2>1. UNCHANGED <<call, pc, started, rows>>
    BY <1>13 DEF Read, Count, ReadPage, StartWalk, procVars, dbVars
  <2>2. QED
    BY <1>13, <2>1 DEF Ordered, Relisted, SlugOf
<1>14. QED
  BY <1>1, <1>2, <1>3, <1>4, <1>5, <1>6, <1>7, <1>8, <1>9, <1>10, <1>11, <1>12, <1>13
  DEF Next, Create, Seed

LEMMA OrderStep == TableInv /\ OrderInv /\ [Next]_vars => OrderInv'
<1> SUFFICES ASSUME TableInv, OrderInv, [Next]_vars PROVE OrderInv'
  OBVIOUS
<1>1. Ordered
  BY EveryStep
<1>t. /\ started \in Seq(Creator) /\ Len(started) \in Nat
      /\ \A i \in DOMAIN started : started[i] \in Creator
  BY DEF TableInv, CatalogueType
<1>2. CASE UNCHANGED started
  BY <1>1, <1>2, <1>t DEF Ordered, OrderInv
<1>3. ASSUME NEW c \in Creator, pc[c] = "start", pc'[c] \notin {"look", "start"}, Begin(c)
      PROVE  OrderInv'
  <2>1. /\ DOMAIN started' = DOMAIN started \cup {Len(started) + 1}
        /\ started'[Len(started) + 1] = c
        /\ \A i \in DOMAIN started : started'[i] = started[i] /\ started[i] # c
    BY <1>3, <1>t DEF Begin, OrderInv
  <2>2. QED
    BY <1>1, <1>3, <1>t, <2>1 DEF Ordered, OrderInv
<1>4. ASSUME NEW c \in Creator, Withdraw(c) PROVE OrderInv'
  <2>1. PICK i \in DOMAIN started : started[i] = c /\ started' = RemoveAt(started, i)
    BY <1>4 DEF Withdraw
  <2>2. /\ started' \in Seq(Creator) /\ Len(started') = Len(started) - 1
        /\ \A j \in 1..(i - 1) : started'[j] = started[j]
        /\ \A j \in i..(Len(started) - 1) : started'[j] = started[j + 1]
    BY <1>t, <2>1, Withdrawn
  <2>3. DOMAIN started = 1..Len(started) /\ DOMAIN started' = 1..(Len(started) - 1)
    BY <1>t, <2>2
  <2> DEFINE old(j) == IF j < i THEN j ELSE j + 1
  <2>4. ASSUME NEW j \in DOMAIN started'
        PROVE  old(j) \in DOMAIN started /\ started'[j] = started[old(j)]
    <3>1. j \in 1..(Len(started) - 1) /\ i \in 1..Len(started) /\ Len(started) \in Nat
      BY <1>t, <2>1, <2>3
    <3>2. CASE j < i
      <4>1. j \in 1..(i - 1) /\ j \in 1..Len(started)
        BY <3>1, <3>2
      <4>2. QED
        BY <2>2, <2>3, <3>2, <4>1
    <3>3. CASE ~(j < i)
      <4>1. j \in i..(Len(started) - 1) /\ j + 1 \in 1..Len(started)
        BY <3>1, <3>3
      <4>2. QED
        BY <2>2, <2>3, <3>3, <4>1
    <3>4. QED
      BY <3>2, <3>3
  <2>5. \A j, k \in DOMAIN started' : old(j) = old(k) => j = k
    BY <1>t, <2>1, <2>3
  <2> HIDE DEF old
  <2>6. \A j, k \in DOMAIN started' : started'[j] = started'[k] => j = k
    BY <2>4, <2>5 DEF OrderInv
  <2>7. \A j \in DOMAIN started' : pc'[started'[j]] \notin {"look", "start"}
    BY <1>1, <1>t, <2>4 DEF Ordered, OrderInv
  <2>8. QED
    BY <2>6, <2>7 DEF OrderInv
<1>5. QED
  BY <1>1, <1>2, <1>3, <1>4 DEF Ordered

\* A transaction of a committed row is never withdrawn, so the order of the
\* rows that are there stays.
LEMMA CreatedStays ==
  ASSUME TableInv, Ordered, NEW r \in rows, NEW s \in rows, Created(r, s)
  PROVE  Created(r, s)'
<1>t. /\ started \in Seq(Creator) /\ Len(started) \in Nat
      /\ DOMAIN started = 1..Len(started)
  BY DEF TableInv, CatalogueType
<1>1. PICK k, j \in DOMAIN started : k > j /\ started[k] = r /\ started[j] = s
  BY DEF Created
<1>2. CASE UNCHANGED started
  BY <1>1, <1>2 DEF Created
<1>3. ASSUME NEW c \in Creator, Begin(c) PROVE Created(r, s)'
  <2>1. /\ DOMAIN started \subseteq DOMAIN started'
        /\ \A i \in DOMAIN started : started'[i] = started[i]
    BY <1>3, <1>t DEF Begin
  <2>2. QED
    BY <1>1, <2>1 DEF Created
<1>4. ASSUME NEW c \in Creator, c \notin rows, Withdraw(c) PROVE Created(r, s)'
  <2>1. PICK i \in DOMAIN started : started[i] = c /\ started' = RemoveAt(started, i)
    BY <1>4, SMTT(30) DEF Withdraw
  <2>2. /\ started' \in Seq(Creator) /\ Len(started') = Len(started) - 1
        /\ \A m \in 1..(i - 1) : started'[m] = started[m]
        /\ \A m \in i..(Len(started) - 1) : started'[m] = started[m + 1]
    BY <1>t, <2>1, Withdrawn, ZenonT(30)
  <2>3. DOMAIN started' = 1..(Len(started) - 1)
    BY <2>2
  <2> DEFINE new(m) == IF m < i THEN m ELSE m - 1
  <2>4. ASSUME NEW m \in DOMAIN started, m # i
        PROVE  new(m) \in DOMAIN started' /\ started'[new(m)] = started[m]
    <3>1. CASE m < i
      BY <1>t, <2>1, <2>2, <2>3, <3>1, SMTT(30)
    <3>2. CASE m > i
      <4>1. m - 1 \in i..(Len(started) - 1) /\ (m - 1) + 1 = m /\ new(m) = m - 1
        BY <1>t, <2>1, <3>2
      <4>2. started'[m - 1] = started[m]
        BY <2>2, <4>1
      <4>3. QED
        BY <1>t, <2>1, <2>3, <4>1, <4>2
    <3>3. QED
      BY <1>t, <2>1, <2>4, <3>1, <3>2
  <2>5. k # i /\ j # i
    BY <1>1, <1>4, <2>1
  <2>6. new(k) > new(j)
    BY <1>t, <1>1, <2>1, <2>5
  <2> HIDE DEF new
  <2>7. QED
    BY <1>1, <2>4, <2>5, <2>6 DEF Created
<1>5. QED
  BY <1>2, <1>3, <1>4 DEF Ordered

LEMMA NextPage ==
  ASSUME NEW page \in Nat
  PROVE  /\ Offset(page + 1) = page * Limit
         /\ Offset(page) + Limit = page * Limit
         /\ Offset(page) \in Int /\ page * Limit \in Nat
  BY DEF Offset

\* The pages themselves.
LEMMA WalkReads ==
  ASSUME TableInv, OrderInv, WalkInv, Read
  PROVE  WalkInv'
<1>t. /\ walk \in Walk /\ CatalogueType /\ Limit \in Nat \ {0}
      /\ UNCHANGED <<rows, name, started, call>>
  BY DEF TableInv, CatalogueType, Read, Count, ReadPage, StartWalk, procVars, dbVars
<1>p. \A by, r : Place(by, r)' = Place(by, r)
  BY <1>t DEF Place, Before, Created, Named, SlugOf
<1>c. Counted' = Counted /\ Counted \in Nat
  BY <1>t, FS_CardinalityType DEF Counted, CatalogueType
<1>1. ASSUME NEW by \in Order, StartWalk(by) PROVE WalkInv'
  <2>1. /\ walk'.at = "page" /\ walk'.by = by /\ walk'.page = 1
        /\ walk'.missed = rows /\ walk'.total = Counted
    BY <1>1 DEF StartWalk, NotWalking
  <2>2. \A r \in rows : Place(by, r) >= 0
    BY <1>t, PlaceIsSmall
  <2>3. Offset(1) = 0
    BY DEF Offset
  <2>4. QED
    BY <1>t, <1>p, <1>c, <2>1, <2>2, <2>3 DEF WalkInv, WalkIsComplete
<1>2. CASE Count
  <2>1. /\ walk.at = "count" /\ walk'.at = "page" /\ walk'.by = walk.by
        /\ walk'.page = walk.page /\ walk'.missed = walk.missed /\ walk'.total = Counted
    BY <1>t, <1>2 DEF Count, Walk
  <2>2. QED
    BY <1>t, <1>p, <1>c, <2>1 DEF WalkInv, WalkIsComplete
<1>3. CASE ReadPage
  <2> DEFINE page == walk.page
             missed == walk.missed \ Page(walk.by, page)
  <2>1. /\ walk.at = "page" /\ page \in Nat /\ page >= 1 /\ walk.by \in Order
        /\ walk.missed \subseteq rows /\ walk.total = Counted
        /\ \A r \in walk.missed : Place(walk.by, r) >= Offset(page)
    BY <1>t, <1>3 DEF ReadPage, WalkInv, Walk
  <2>2. ASSUME NEW r \in missed PROVE r \in rows /\ Place(walk.by, r) >= page * Limit
    <3>1. r \in rows /\ Place(walk.by, r) >= Offset(page)
      BY <2>1
    <3>2. Place(walk.by, r) \in Nat
      BY <1>t, <2>1, <3>1, PlaceIsSmall
    <3>3. Place(walk.by, r) \notin Offset(page)..(Offset(page) + Limit - 1)
      BY <3>1 DEF Page, Place
    <3>4. /\ Offset(page) \in Int /\ page * Limit \in Nat
          /\ Offset(page) + Limit = page * Limit
      BY <2>1, NextPage
    <3>5. QED
      BY <1>t, <3>1, <3>2, <3>3, <3>4
  <2>3. CASE page * Limit >= walk.total
    <3>1. walk'.at = "ended" /\ walk'.page = 1 /\ walk'.missed = missed
      BY <1>3, <2>3 DEF ReadPage, NotWalking
    <3>2. missed = {}
      <4>1. SUFFICES ASSUME NEW r \in missed PROVE FALSE
        OBVIOUS
      <4>2. r \in rows /\ Place(walk.by, r) >= page * Limit
        BY <2>2
      <4>3. Place(walk.by, r) \in Nat /\ Place(walk.by, r) < Counted
        BY <1>t, <2>1, <4>2, PlaceIsSmall
      <4>4. page * Limit \in Nat
        BY <2>1, NextPage
      <4>5. QED
        BY <1>c, <2>1, <2>3, <4>2, <4>3, <4>4
    <3>3. QED
      BY <3>1, <3>2 DEF WalkInv, WalkIsComplete
  <2>4. CASE ~(page * Limit >= walk.total)
    <3>1. /\ walk'.at = "count" /\ walk'.by = walk.by /\ walk'.page = page + 1
          /\ walk'.missed = missed
      BY <1>t, <1>3, <2>4 DEF ReadPage, Walk
    <3>2. \A r \in missed : r \in rows /\ Place(walk.by, r) >= Offset(page + 1)
      BY <2>1, <2>2, NextPage
    <3>3. page + 1 >= 1
      BY <2>1
    <3> HIDE DEF page, missed
    <3>4. PICK by \in Order, next \in Nat : by = walk.by /\ next = page + 1
      BY <2>1
    <3>5. walk'.by = by /\ walk'.page = next
      BY <3>1, <3>4
    <3>6. \A r \in missed : r \in rows' /\ Place(by, r)' >= Offset(next)
      BY <1>t, <1>p, <3>2, <3>4
    <3>7. QED
      BY <3>1, <3>3, <3>4, <3>5, <3>6 DEF WalkInv, WalkIsComplete
  <2>5. QED
    BY <2>3, <2>4
<1>4. QED
  BY <1>1, <1>2, <1>3 DEF Read

LEMMA WalkStep == TableInv /\ OrderInv /\ WalkInv /\ CatalogueType' /\ [Next]_vars => WalkInv'
<1> SUFFICES ASSUME TableInv, OrderInv, WalkInv, CatalogueType', [Next]_vars PROVE WalkInv'
  OBVIOUS
<1>1. Ordered /\ Relisted
  BY EveryStep
<1>2. CASE walk' = Torn
  BY <1>2 DEF Torn, NotWalking, WalkInv, WalkIsComplete
<1>3. CASE Read
  BY <1>3, WalkReads
<1>4. CASE /\ UNCHANGED walk
           /\ walk.at = "page" => rows' = rows
           /\ walk.at \in {"count", "page"} /\ walk.by = "name" => UNCHANGED name
  <2>1. CASE walk.at \in {"count", "page"}
    <3>1. PICK by \in Order : by = walk.by
      BY DEF TableInv, CatalogueType, Walk
    <3>2. /\ walk.missed \subseteq rows /\ rows \subseteq rows' /\ IsFiniteSet(rows')
          /\ \A r \in walk.missed : Place(by, r) >= Offset(walk.page)
          /\ walk.page \in Nat /\ Limit \in Nat
      BY <1>1, <2>1, <3>1 DEF WalkInv, Relisted, TableInv, CatalogueType, Walk
    <3>3. ASSUME NEW r \in walk.missed PROVE Place(by, r)' >= Offset(walk.page)
      <4>1. ASSUME NEW s \in rows, Before(by, s, r) PROVE Before(by, s, r)'
        <5>1. CASE by = "created"
          BY <1>1, <3>2, <4>1, <5>1, CreatedStays DEF Before
        <5>2. CASE by = "name"
          BY <1>1, <1>4, <2>1, <3>1, <3>2, <4>1, <5>2 DEF Before, Named, Relisted
        <5>3. QED
          BY <5>1, <5>2 DEF Order
      <4>2. Place(by, r) >= Offset(walk.page) /\ Place(by, r) <= Place(by, r)'
        BY <3>2, <4>1, PlacesGrow
      <4>3. Place(by, r) \in Nat /\ Place(by, r)' \in Nat /\ Offset(walk.page) \in Int
        <5>1. IsFiniteSet(rows)
          BY DEF TableInv, CatalogueType
        <5>2. IsFiniteSet({s \in rows : Before(by, s, r)})
          BY <5>1, FS_Subset
        <5>3. IsFiniteSet({s \in rows : Before(by, s, r)}')
          BY <3>2, FS_Subset
        <5>4. QED
          BY <3>2, <5>2, <5>3, FS_CardinalityType, NextPage DEF Place
      <4>4. QED
        BY <4>2, <4>3
    <3>4. walk'.by = by /\ walk'.page = walk.page
      BY <1>4, <3>1
    <3>5. PICK offset \in Int : offset = Offset(walk.page)
      BY <3>2, NextPage
    <3>6. Offset(walk.page)' = offset
      BY <1>4, <3>5 DEF Offset
    <3>7. \A r \in walk.missed : Place(by, r)' >= offset
      BY <3>3, <3>5
    <3>8. walk.at = "page" => Counted' = Counted
      BY <1>4 DEF Counted
    <3>9. QED
      BY <1>4, <3>2, <3>4, <3>6, <3>7, <3>8 DEF WalkInv, WalkIsComplete
  <2>2. CASE walk.at \notin {"count", "page"}
    BY <1>4, <2>2 DEF WalkInv, WalkIsComplete
  <2>3. QED
    BY <2>1, <2>2
<1>5. QED
  BY <1>1, <1>2, <1>3, <1>4 DEF Relisted

\* benchmarks.py:65-79, search.py:71-78: a client that reads page after page
\* until the total has seen every benchmark that was there when it started,
\* wherever in the order others appear meanwhile; unless one appears between
\* the COUNT and the SELECT of a page, or is renamed in a listing by name.
THEOREM WalksAreComplete == Spec => []WalkIsComplete
<1>1. Init => OrderInv
  BY DEF Init, OrderInv
<1>2. Init => WalkInv
  BY DEF Init, WalkInv, WalkIsComplete, NotWalking
<1>3. TableInv => CatalogueType
  BY DEF TableInv
<1>4. Spec => []OrderInv
  BY <1>1, OrderStep, Table, PTL DEF Spec
<1>5. Spec => []WalkInv
  BY <1>2, <1>3, <1>4, WalkStep, Table, PTL DEF Spec
<1>6. WalkInv => WalkIsComplete
  BY DEF WalkInv
<1>7. QED
  BY <1>5, <1>6, PTL
=============================================================================
