-------------------------- MODULE ReviewDecisions --------------------------
(***************************************************************************)
(* What administrators do to one benchmark and to one report about it:     *)
(* backend/app/routers/admin.py set_benchmark_verification and             *)
(* add_review_note, routers/reports.py resolve_report; and the read that   *)
(* takes several SELECTs, benchmark_review_context.                        *)
(*                                                                         *)
(* An action loads its row, assigns columns, and flushes, audits and       *)
(* commits in one transaction.  The load takes no lock; the UPDATE holds   *)
(* the row until the commit, so everything from the flush to the commit is *)
(* one step here.  SQLAlchemy's UPDATE names only the columns whose        *)
(* assigned value differs from the loaded one.                             *)
(***************************************************************************)
EXTENDS Sequences, SequencesExt, Integers

CONSTANTS
  Action,      (* actions taken on the benchmark or on the report          *)
  Reviewer,    (* administrators                                           *)
  Note,        (* note texts                                               *)
  Nothing      (* NULL: no note, no reviewer yet                           *)

ASSUME ConstantsAssumption ==
  /\ Nothing \notin Action
  /\ Nothing \notin Reviewer
  /\ Nothing \notin Note

Final == {"actioned", "dismissed"}
Resolution == Final \cup {"reviewing"}

\* What an administrator asks for.  Only a review note must have a text.
Request ==
  {q \in [kind : {"verify", "unverify", "note"} \cup Resolution,
          by : Reviewer, note : Note \cup {Nothing}] :
     q.kind = "note" => q.note # Nothing}

Columns ==
  [is_verified : BOOLEAN, review_note : Note \cup {Nothing},
   reviewed_by : Reviewer \cup {Nothing}, reviewed_at : Action \cup {Nothing}]

ReportColumns ==
  [status : Resolution \cup {"open"}, resolution_note : Note \cup {Nothing},
   resolver : Reviewer \cup {Nothing}, resolved_at : Action \cup {Nothing}]

VARIABLES
  request,   (* what each action asks for                                  *)
  pc,        (* where each action is                                       *)
  loaded,    (* the row as each action's session loaded it                 *)
  base,      (* how many actions its row had seen by then                  *)
  row,       (* the review columns of the benchmark                        *)
  events,    (* the audit events of the benchmark, in commit order         *)
  report,    (* the columns of the report                                  *)
  updates,   (* the audit events of the report, in commit order            *)
  reader     (* a page that an administrator loads                         *)

reviewVars == <<row, events>>
reportVars == <<report, updates>>
vars == <<request, pc, loaded, base, reviewVars, reportVars, reader>>

TypeOK ==
  /\ request \in [Action -> Request]
  /\ pc \in [Action -> {"load", "decide", "done"}]
  /\ loaded \in [Action -> Columns \cup ReportColumns]
  /\ base \in [Action -> Nat]
  /\ row \in Columns
  /\ events \in Seq(Action)
  /\ report \in ReportColumns
  /\ updates \in Seq(Action)
  /\ reader \in [at : {"idle", "context", "shown"}, row : Columns, trail : SUBSET Action]

Unreviewed ==
  [is_verified |-> FALSE, review_note |-> Nothing, reviewed_by |-> Nothing, reviewed_at |-> Nothing]

\* create_report: the row and its audit event in one transaction.
Opened ==
  [status |-> "open", resolution_note |-> Nothing, resolver |-> Nothing, resolved_at |-> Nothing]

NotReading == [at |-> "idle", row |-> Unreviewed, trail |-> {}]

Init ==
  /\ request \in [Action -> Request]
  /\ pc = [a \in Action |-> "load"]
  /\ loaded = [a \in Action |-> Unreviewed]
  /\ base = [a \in Action |-> 0]
  /\ row = Unreviewed
  /\ events = <<>>
  /\ report = Opened
  /\ updates = <<>>
  /\ reader = NotReading

IsResolution(a) == request[a].kind \in Resolution
-----------------------------------------------------------------------------
\* UPDATE of one column: left out when the assigned value is the loaded one.
Written(old, read, new) == IF new = read THEN old ELSE new

\* Mutation of Verified: a note verifies.
NoteVerifies(q, read)  == q.kind # "unverify"
\* A decision sets the badge; a note assigns nothing to it.
Verified(q, read) ==
  CASE q.kind = "verify"   -> TRUE
    [] q.kind = "unverify" -> FALSE
    [] q.kind = "note"     -> read.is_verified

\* if payload.note: benchmark.review_note = payload.note
NoteOf(q, read) == IF q.note = Nothing THEN read.review_note ELSE q.note

\* Mutation of ReviewerOf: a note is not signed.
DeciderOf(q, read) == IF q.kind = "note" THEN read.reviewed_by ELSE q.by

ReviewerOf(q, read) == q.by

\* What action a assigns to the columns it has loaded.  No two actions are
\* at the same time, so reviewed_at names the action.
Assigned(a, q, read) ==
  [is_verified |-> Verified(q, read),
   review_note |-> NoteOf(q, read),
   reviewed_by |-> ReviewerOf(q, read),
   reviewed_at |-> a]

\* Mutation of ResolvedAt: going back to reviewing keeps the time.
KeptResolvedAt(a, q, read) == IF q.kind \in Final THEN a ELSE read.resolved_at

ResolvedAt(a, q, read) == IF q.kind \in Final THEN a ELSE Nothing

\* resolve_report assigns all four columns, the note also when it is NULL.
Resolved(a, q, read) ==
  [status |-> q.kind,
   resolution_note |-> q.note,
   resolver |-> q.by,
   resolved_at |-> ResolvedAt(a, q, read)]

\* The SELECT of the handler; it takes no lock.
Load(a) ==
  /\ pc[a] = "load"
  /\ loaded' = [loaded EXCEPT ![a] = IF IsResolution(a) THEN report ELSE row]
  /\ base' = [base EXCEPT ![a] = IF IsResolution(a) THEN Len(updates) ELSE Len(events)]
  /\ pc' = [pc EXCEPT ![a] = "decide"]
  /\ UNCHANGED <<request, reviewVars, reportVars, reader>>

Updated(old, read, new) == [c \in DOMAIN old |-> Written(old[c], read[c], new[c])]

\* Mutation of Audited: the event is left to a transaction of its own.
AuditedLater(trail, a) == trail

\* record_audit_event, in the transaction of the action.
Audited(trail, a) == Append(trail, a)

Decide(a) ==
  /\ pc[a] = "decide"
  /\ ~IsResolution(a)
  /\ row' = Updated(row, loaded[a], Assigned(a, request[a], loaded[a]))
  /\ events' = Audited(events, a)
  /\ pc' = [pc EXCEPT ![a] = "done"]
  /\ UNCHANGED <<request, loaded, base, reportVars, reader>>

Resolve(a) ==
  /\ pc[a] = "decide"
  /\ IsResolution(a)
  /\ report' = Updated(report, loaded[a], Resolved(a, request[a], loaded[a]))
  /\ updates' = Audited(updates, a)
  /\ pc' = [pc EXCEPT ![a] = "done"]
  /\ UNCHANGED <<request, loaded, base, reviewVars, reader>>

\* The transaction is rolled back, or the process dies: nothing remains.
Abandon(a) ==
  /\ pc[a] # "done"
  /\ pc' = [pc EXCEPT ![a] = "done"]
  /\ UNCHANGED <<request, loaded, base, reviewVars, reportVars, reader>>
-----------------------------------------------------------------------------
\* benchmark_review_context: the row first, the relationships after it, each
\* with a SELECT of its own that sees what is committed by then.
ReadRow ==
  /\ reader.at = "idle"
  /\ reader' = [reader EXCEPT !.at = "context", !.row = row]
  /\ UNCHANGED <<request, pc, loaded, base, reviewVars, reportVars>>

ReadTrail ==
  /\ reader.at = "context"
  /\ reader' = [reader EXCEPT !.at = "shown", !.trail = ToSet(events)]
  /\ UNCHANGED <<request, pc, loaded, base, reviewVars, reportVars>>

Read == ReadRow \/ ReadTrail

Next ==
  \/ \E a \in Action : Load(a) \/ Decide(a) \/ Resolve(a) \/ Abandon(a)
  \/ Read

Spec == Init /\ [][Next]_vars
-----------------------------------------------------------------------------
Latest(I) == CHOOSE i \in I : \A k \in I : k <= i

\* What was asked for by the actions that were committed between the load and
\* the commit of event i of a trail.
Overtaking(trail, i) == {request[trail[k]] : k \in (base[trail[i]] + 1)..(i - 1)}

Decisions == {i \in DOMAIN events : request[events[i]].kind # "note"}

\* review-workflow.md:270: is_verified is the "Current verification state".
\* The latest decision is the badge that readers see, whatever notes overlap
\* it and follow it, unless the opposite decision was committed while it was
\* being taken: of two such decisions, the later one may not show.
BadgeSettles ==
  Decisions # {} =>
    LET i == Latest(Decisions)
        q == request[events[i]]
    IN  (\A o \in Overtaking(events, i) : o.kind \in {"note", q.kind}) =>
          row.is_verified = (q.kind = "verify")

\* review-workflow.md:272-273: reviewed_at and reviewed_by are those of the
\* most recent review action, and :271, so is the note that it came with;
\* reviewed_at in any case, the others unless another reviewer, or another
\* note, was committed while it was being taken.  Of an action without a note
\* nothing is said: the code leaves the older note (admin.py:411), although
\* :275 has all three fields "reflect only the most recent review action".
LatestReviewShows ==
  events # <<>> =>
    LET q == request[Last(events)]
        others == Overtaking(events, Len(events))
    IN  /\ row.reviewed_at = Last(events)
        /\ (\A o \in others : o.by = q.by) => row.reviewed_by = q.by
        /\ q.note # Nothing /\ (\A o \in others : o.note \in {Nothing, q.note}) =>
             row.review_note = q.note

\* reports.py:88: the latest resolution leaves the report as its own, column by
\* column, unless one that disagrees on the column was committed while it was
\* being made.  A final status always has its resolution time; going back to
\* "reviewing" clears it unless a final one was overtaken.
ResolutionSettles ==
  updates # <<>> =>
    LET q == request[Last(updates)]
        others == Overtaking(updates, Len(updates))
    IN  /\ (\A o \in others : o.kind = q.kind) => report.status = q.kind
        /\ (\A o \in others : o.note = q.note) => report.resolution_note = q.note
        /\ (\A o \in others : o.by = q.by) => report.resolver = q.by
        /\ q.kind \in Final => report.resolved_at = Last(updates)
        /\ (\A o \in others \cup {q} : o.kind \notin Final) => report.resolved_at = Nothing

\* admin.py:259: "the complete audit trail": although the page reads the row
\* and the trail one after the other, the trail that it shows has the action
\* that the row says was the last.
TrailExplainsRow ==
  reader.at = "shown" /\ reader.row.reviewed_at # Nothing =>
    reader.row.reviewed_at \in reader.trail
=============================================================================
