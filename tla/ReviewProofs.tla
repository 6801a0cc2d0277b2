---------------------------- MODULE ReviewProofs ----------------------------
(***************************************************************************)
(* Proofs about ReviewDecisions for any number of actions, reviewers and   *)
(* notes.  What an action leaves depends on what it had loaded and on what *)
(* was committed since: the invariants say, of every action that has       *)
(* loaded its row, how a column may differ by now from what it loaded.     *)
(***************************************************************************)
EXTENDS ReviewDecisions, TLAPS

USE ConstantsAssumption

\* An action that has loaded its row has loaded a row of its own table.
LoadedItsTable ==
  \A a \in Action : pc[a] = "decide" =>
    loaded[a] \in IF IsResolution(a) THEN ReportColumns ELSE Columns

ReviewType == TypeOK /\ LoadedItsTable

Kinds == {"verify", "unverify", "note"} \cup Resolution

LEMMA RequestType ==
  ASSUME TypeOK, NEW a \in Action
  PROVE  /\ request[a].kind \in Kinds
         /\ request[a].by \in Reviewer
         /\ request[a].note \in Note \cup {Nothing}
  BY DEF TypeOK, Request, Kinds

LEMMA UpdatedColumns ==
  ASSUME NEW old \in Columns, NEW read, NEW new \in Columns
  PROVE  /\ Updated(old, read, new) \in Columns
         /\ Updated(old, read, new).is_verified =
              Written(old.is_verified, read.is_verified, new.is_verified)
         /\ Updated(old, read, new).review_note =
              Written(old.review_note, read.review_note, new.review_note)
         /\ Updated(old, read, new).reviewed_by =
              Written(old.reviewed_by, read.reviewed_by, new.reviewed_by)
         /\ Updated(old, read, new).reviewed_at =
              Written(old.reviewed_at, read.reviewed_at, new.reviewed_at)
  BY DEF Updated, Written, Columns

LEMMA UpdatedReport ==
  ASSUME NEW old \in ReportColumns, NEW read, NEW new \in ReportColumns
  PROVE  /\ Updated(old, read, new) \in ReportColumns
         /\ Updated(old, read, new).status =
              Written(old.status, read.status, new.status)
         /\ Updated(old, read, new).resolution_note =
              Written(old.resolution_note, read.resolution_note, new.resolution_note)
         /\ Updated(old, read, new).resolver =
              Written(old.resolver, read.resolver, new.resolver)
         /\ Updated(old, read, new).resolved_at =
              Written(old.resolved_at, read.resolved_at, new.resolved_at)
  BY DEF Updated, Written, ReportColumns

\* Whoever has an event has ended, and so is not going to load again.
EventsAreDone ==
  /\ \A i \in DOMAIN events : pc[events[i]] = "done"
  /\ \A i \in DOMAIN updates : pc[updates[i]] = "done"

\* An action loads after the events that it has seen, and names itself only in
\* the row that it writes.
LoadsAreFresh ==
  /\ \A a \in Action : pc[a] = "decide" =>
       IF IsResolution(a)
       THEN base[a] <= Len(updates) /\ loaded[a].resolved_at # a
       ELSE base[a] <= Len(events) /\ loaded[a].reviewed_at # a
  /\ row.reviewed_at # Nothing => pc[row.reviewed_at] = "done"
  /\ report.resolved_at # Nothing => pc[report.resolved_at] = "done"

ReviewInv == ReviewType /\ EventsAreDone /\ LoadsAreFresh

LEMMA Appended ==
  ASSUME NEW s \in Seq(Action), NEW a \in Action
  PROVE  /\ Append(s, a) \in Seq(Action)
         /\ Len(s) \in Nat /\ Len(Append(s, a)) = Len(s) + 1
         /\ DOMAIN Append(s, a) = DOMAIN s \cup {Len(s) + 1}
         /\ DOMAIN s = 1..Len(s)
         /\ Append(s, a)[Len(s) + 1] = a
         /\ \A i \in DOMAIN s : Append(s, a)[i] = s[i] /\ s[i] \in Action
  OBVIOUS

LEMMA AssignedColumns ==
  ASSUME ReviewType, NEW a \in Action, pc[a] = "decide", ~IsResolution(a)
  PROVE  /\ loaded[a] \in Columns
         /\ Assigned(a, request[a], loaded[a]) \in Columns
<1>1. loaded[a] \in Columns
  BY DEF ReviewType, LoadedItsTable
<1>2. request[a].kind \in {"verify", "unverify", "note"}
  BY RequestType DEF ReviewType, IsResolution, Kinds
<1>3. Verified(request[a], loaded[a]) \in BOOLEAN
  BY <1>1, <1>2 DEF Verified, Columns
<1>4. NoteOf(request[a], loaded[a]) \in Note \cup {Nothing}
  BY <1>1, RequestType DEF NoteOf, Columns, ReviewType
<1>5. QED
  BY <1>1, <1>3, <1>4, RequestType DEF Assigned, ReviewerOf, Columns, ReviewType

LEMMA ResolvedColumns ==
  ASSUME ReviewType, NEW a \in Action, IsResolution(a)
  PROVE  Resolved(a, request[a], loaded[a]) \in ReportColumns
  BY RequestType DEF Resolved, ResolvedAt, ReportColumns, IsResolution, ReviewType

LEMMA ReviewInit == Init => ReviewInv
<1> SUFFICES ASSUME Init PROVE ReviewInv
  OBVIOUS
<1>1. Unreviewed \in Columns
  BY DEF Unreviewed, Columns
<1>2. Opened \in ReportColumns
  BY DEF Opened, ReportColumns
<1>3. NotReading \in [at : {"idle", "context", "shown"}, row : Columns, trail : SUBSET Action]
  BY <1>1 DEF NotReading
<1>4. TypeOK
  BY <1>1, <1>2, <1>3 DEF Init, TypeOK
<1>5. LoadedItsTable /\ EventsAreDone /\ LoadsAreFresh
  BY DEF Init, LoadedItsTable, EventsAreDone, LoadsAreFresh, Unreviewed, Opened
<1>6. QED
  BY <1>4, <1>5 DEF ReviewInv, ReviewType

\* Every value that an action writes is its own or was there before.
LEMMA DecideNames ==
  ASSUME ReviewInv, NEW a \in Action, Decide(a)
  PROVE  row' \in Columns /\ row'.reviewed_at = a
<1> DEFINE new == Assigned(a, request[a], loaded[a])
<1>1. /\ row \in Columns /\ pc[a] = "decide" /\ ~IsResolution(a)
      /\ loaded[a] \in Columns /\ new \in Columns
  BY AssignedColumns DEF Decide, ReviewInv, ReviewType, TypeOK
<1>2. row' = Updated(row, loaded[a], new) /\ new.reviewed_at = a /\ loaded[a].reviewed_at # a
  BY <1>1 DEF Decide, Assigned, ReviewInv, LoadsAreFresh
<1> HIDE DEF new
<1>3. QED
  BY <1>1, <1>2, UpdatedColumns DEF Written

LEMMA ResolveNames ==
  ASSUME ReviewInv, NEW a \in Action, Resolve(a)
  PROVE  /\ report' \in ReportColumns
         /\ report'.resolved_at \in {report.resolved_at, a, Nothing}
<1> DEFINE new == Resolved(a, request[a], loaded[a])
<1>1. /\ report \in ReportColumns /\ new \in ReportColumns
      /\ report' = Updated(report, loaded[a], new)
      /\ new.resolved_at \in {a, Nothing}
  BY ResolvedColumns DEF Resolve, ReviewInv, ReviewType, TypeOK, Resolved, ResolvedAt
<1> HIDE DEF new
<1>2. QED
  BY <1>1, UpdatedReport DEF Written

LEMMA ReviewStep == ReviewInv /\ [Next]_vars => ReviewInv'
<1> SUFFICES ASSUME ReviewInv, [Next]_vars PROVE ReviewInv'
  OBVIOUS
<1>t. ReviewType /\ TypeOK /\ LoadedItsTable /\ EventsAreDone /\ LoadsAreFresh
  BY DEF ReviewInv, ReviewType
<1>n. /\ events \in Seq(Action) /\ updates \in Seq(Action)
      /\ Len(events) \in Nat /\ Len(updates) \in Nat
      /\ pc \in [Action -> {"load", "decide", "done"}]
      /\ loaded \in [Action -> Columns \cup ReportColumns]
      /\ base \in [Action -> Nat]
      /\ row \in Columns /\ report \in ReportColumns
      /\ reader \in [at : {"idle", "context", "shown"}, row : Columns, trail : SUBSET Action]
      /\ \A i \in DOMAIN events : events[i] \in Action
      /\ \A i \in DOMAIN updates : updates[i] \in Action
  BY <1>t DEF TypeOK
<1>1. CASE UNCHANGED vars
  <2>1. UNCHANGED <<request, pc, loaded, base, row, events, report, updates, reader>>
    BY <1>1 DEF vars, reviewVars, reportVars
  <2>2. TypeOK' /\ LoadedItsTable'
    BY <1>t, <2>1 DEF TypeOK, LoadedItsTable, IsResolution
  <2>3. EventsAreDone' /\ LoadsAreFresh'
    BY <1>t, <2>1 DEF EventsAreDone, LoadsAreFresh, IsResolution
  <2>4. QED
    BY <2>2, <2>3 DEF ReviewInv, ReviewType
<1>2. ASSUME NEW a \in Action, Load(a) PROVE ReviewInv'
  <2>1. /\ pc[a] = "load"
        /\ loaded' = [loaded EXCEPT ![a] = IF IsResolution(a) THEN report ELSE row]
        /\ base' = [base EXCEPT ![a] = IF IsResolution(a) THEN Len(updates) ELSE Len(events)]
        /\ pc' = [pc EXCEPT ![a] = "decide"]
        /\ UNCHANGED <<request, row, events, report, updates, reader>>
    BY <1>2 DEF Load, reviewVars, reportVars
  <2>2. TypeOK'
    BY <1>t, <1>n, <2>1 DEF TypeOK
  <2>3. LoadedItsTable'
    BY <1>t, <1>n, <2>1 DEF LoadedItsTable, IsResolution
  <2>4. EventsAreDone'
    BY <1>t, <1>n, <2>1 DEF EventsAreDone
  <2>5. row.reviewed_at # a /\ report.resolved_at # a
    BY <1>t, <2>1 DEF LoadsAreFresh
  <2>6. LoadsAreFresh'
    BY <1>t, <1>n, <2>1, <2>5 DEF LoadsAreFresh, IsResolution
  <2>7. QED
    BY <2>2, <2>3, <2>4, <2>6 DEF ReviewInv, ReviewType
<1>3. ASSUME NEW a \in Action, Decide(a) PROVE ReviewInv'
  <2>1. /\ pc[a] = "decide" /\ ~IsResolution(a)
        /\ row' = Updated(row, loaded[a], Assigned(a, request[a], loaded[a]))
        /\ events' = Append(events, a)
        /\ pc' = [pc EXCEPT ![a] = "done"]
        /\ UNCHANGED <<request, loaded, base, report, updates, reader>>
    BY <1>3 DEF Decide, Audited, reportVars
  <2>2. row' \in Columns /\ row'.reviewed_at = a
    BY <1>3, DecideNames
  <2>3. TypeOK'
    BY <1>t, <1>n, <2>1, <2>2, Appended DEF TypeOK
  <2>4. LoadedItsTable'
    BY <1>t, <1>n, <2>1 DEF LoadedItsTable, IsResolution
  <2>5. EventsAreDone'
    BY <1>t, <1>n, <2>1, Appended DEF EventsAreDone
  <2>6. Len(events') = Len(events) + 1
    BY <1>n, <2>1, Appended
  <2>7. LoadsAreFresh'
    BY <1>t, <1>n, <2>1, <2>2, <2>6 DEF LoadsAreFresh, IsResolution
  <2>8. QED
    BY <2>3, <2>4, <2>5, <2>7 DEF ReviewInv, ReviewType
<1>4. ASSUME NEW a \in Action, Resolve(a) PROVE ReviewInv'
  <2>1. /\ pc[a] = "decide" /\ IsResolution(a)
        /\ report' = Updated(report, loaded[a], Resolved(a, request[a], loaded[a]))
        /\ updates' = Append(updates, a)
        /\ pc' = [pc EXCEPT ![a] = "done"]
        /\ UNCHANGED <<request, loaded, base, row, events, reader>>
    BY <1>4 DEF Resolve, Audited, reviewVars
  <2>2. report' \in ReportColumns /\ report'.resolved_at \in {report.resolved_at, a, Nothing}
    BY <1>4, ResolveNames
  <2>3. TypeOK'
    BY <1>t, <1>n, <2>1, <2>2, Appended DEF TypeOK
  <2>4. LoadedItsTable'
    BY <1>t, <1>n, <2>1 DEF LoadedItsTable, IsResolution
  <2>5. EventsAreDone'
    BY <1>t, <1>n, <2>1, Appended DEF EventsAreDone
  <2>6. Len(updates') = Len(updates) + 1
    BY <1>n, <2>1, Appended
  <2>7. LoadsAreFresh'
    BY <1>t, <1>n, <2>1, <2>2, <2>6 DEF LoadsAreFresh, IsResolution
  <2>8. QED
    BY <2>3, <2>4, <2>5, <2>7 DEF ReviewInv, ReviewType
<1>5. ASSUME NEW a \in Action, Abandon(a) PROVE ReviewInv'
  <2>1. /\ pc' = [pc EXCEPT ![a] = "done"]
        /\ UNCHANGED <<request, loaded, base, row, events, report, updates, reader>>
    BY <1>5 DEF Abandon, reviewVars, reportVars
  <2>2. TypeOK'
    BY <1>t, <1>n, <2>1 DEF TypeOK
  <2>3. LoadedItsTable' /\ EventsAreDone' /\ LoadsAreFresh'
    BY <1>t, <1>n, <2>1 DEF LoadedItsTable, IsResolution, EventsAreDone, LoadsAreFresh
  <2>4. QED
    BY <2>2, <2>3 DEF ReviewInv, ReviewType
<1>6. CASE Read
  <2>1. UNCHANGED <<request, pc, loaded, base, row, events, report, updates>>
    BY <1>6 DEF Read, ReadRow, ReadTrail, reviewVars, reportVars
  <2>2. reader' \in [at : {"idle", "context", "shown"}, row : Columns, trail : SUBSET Action]
    <3>1. ToSet(events) \subseteq Action
      BY <1>n DEF ToSet
    <3>2. CASE ReadRow
      BY <1>n, <3>2 DEF ReadRow
    <3>3. CASE ReadTrail
      BY <1>n, <3>1, <3>3 DEF ReadTrail
    <3>4. QED
      BY <1>6, <3>2, <3>3 DEF Read
  <2>3. TypeOK'
    BY <1>t, <2>1, <2>2 DEF TypeOK
  <2>4. LoadedItsTable' /\ EventsAreDone' /\ LoadsAreFresh'
    BY <1>t, <2>1 DEF LoadedItsTable, IsResolution, EventsAreDone, LoadsAreFresh
  <2>5. QED
    BY <2>3, <2>4 DEF ReviewInv, ReviewType
<1>7. QED
  BY <1>1, <1>2, <1>3, <1>4, <1>5, <1>6 DEF Next

LEMMA Review == Spec => []ReviewInv
  BY ReviewInit, ReviewStep, PTL DEF Spec

\* Every variable keeps its type: an action assigns to the columns of its own
\* table, from the columns that it has loaded.
THEOREM TypeCorrect == Spec => []TypeOK
<1>1. ReviewInv => TypeOK
  BY DEF ReviewInv, ReviewType
<1>2. QED
  BY <1>1, Review, PTL
-----------------------------------------------------------------------------
(* The benchmark: a step adds one event at most, and what the earlier      *)
(* events did, and had loaded, stays.                                      *)

\* What was asked for by the events after the first n of a trail.
After(trail, n) == {request[trail[k]] : k \in (n + 1)..Len(trail)}

LEMMA AfterAppended ==
  ASSUME NEW s \in Seq(Action), NEW a \in Action, NEW n \in Nat, n <= Len(s)
  PROVE  /\ After(Append(s, a), n) = After(s, n) \cup {request[a]}
         /\ {request[Append(s, a)[k]] : k \in (n + 1)..(Len(Append(s, a)) - 1)} = After(s, n)
<1>1. /\ Len(s) \in Nat /\ Len(Append(s, a)) = Len(s) + 1
      /\ Append(s, a)[Len(s) + 1] = a
      /\ \A k \in (n + 1)..Len(s) : Append(s, a)[k] = s[k]
  BY Appended
<1>2. PICK m \in Nat : m = Len(s) /\ Len(Append(s, a)) = m + 1
  BY <1>1
<1>3. (n + 1)..(m + 1) = ((n + 1)..m) \cup {m + 1} /\ (m + 1) - 1 = m
  BY <1>2
<1>4. QED
  BY <1>1, <1>2, <1>3 DEF After

LEMMA EarlierEventsStay ==
  ASSUME ReviewInv, [Next]_vars
  PROVE  /\ UNCHANGED request
         /\ \A i \in DOMAIN events :
              /\ i \in DOMAIN events' /\ events'[i] = events[i]
              /\ base'[events[i]] = base[events[i]]
         /\ \/ UNCHANGED <<row, events>>
            \/ \E a \in Action : Decide(a)
<1>1. events \in Seq(Action) /\ \A i \in DOMAIN events : events[i] \in Action
  BY DEF ReviewInv, ReviewType, TypeOK
<1>2. CASE \E a \in Action : Decide(a)
  <2>1. PICK a \in Action : Decide(a)
    BY <1>2
  <2>2. events' = Append(events, a) /\ UNCHANGED <<request, base>>
    BY <2>1 DEF Decide, Audited
  <2>3. QED
    BY <1>1, <1>2, <2>2, Appended
<1>3. CASE \E a \in Action : Load(a)
  <2>1. PICK a \in Action : Load(a)
    BY <1>3
  <2>2. /\ pc[a] = "load" /\ UNCHANGED <<request, row, events>>
        /\ \A b \in Action \ {a} : base'[b] = base[b]
    BY <2>1 DEF Load, reviewVars, ReviewInv, ReviewType, TypeOK
  <2>3. QED
    BY <1>1, <2>2 DEF ReviewInv, EventsAreDone
<1>4. CASE UNCHANGED vars \/ Read \/ \E a \in Action : Resolve(a) \/ Abandon(a)
  <2>1. UNCHANGED <<request, row, events, base>>
    BY <1>4 DEF vars, Read, ReadRow, ReadTrail, Resolve, Abandon, reviewVars
  <2>2. QED
    BY <1>1, <2>1
<1>5. QED
  BY <1>2, <1>3, <1>4 DEF Next

\* How the column may differ from what an action has loaded.
BadgeOf(verified) == IF verified THEN "verify" ELSE "unverify"

PendingReview ==
  \A a \in Action : pc[a] = "decide" /\ ~IsResolution(a) =>
    LET since == After(events, base[a])
    IN  /\ (\A o \in since : o.kind \in {"note", BadgeOf(loaded[a].is_verified)}) =>
             row.is_verified = loaded[a].is_verified
        /\ (\A o \in since : o.by = loaded[a].reviewed_by) =>
             row.reviewed_by = loaded[a].reviewed_by
        /\ (\A o \in since : o.note \in {Nothing, loaded[a].review_note}) =>
             row.review_note = loaded[a].review_note

\* What the commit of an action does to the trail and to the columns.
LEMMA DecideEffect ==
  ASSUME ReviewInv, PendingReview, NEW a \in Action, Decide(a)
  PROVE  LET n == Len(events)
             q == request[a]
             since == After(events, base[a])
         IN  /\ n \in Nat /\ DOMAIN events = 1..n
             /\ DOMAIN events' = DOMAIN events \cup {n + 1} /\ events'[n + 1] = a
             /\ UNCHANGED <<request, base, loaded>> /\ Last(events') = a /\ Len(events') = n + 1
             /\ Overtaking(events, Len(events))' = since
             /\ q.kind \in {"verify", "unverify", "note"}
             /\ q.kind = "note" => row'.is_verified = row.is_verified
             /\ q.kind # "note" => \/ row'.is_verified = row.is_verified
                                   \/ row'.is_verified = (q.kind = "verify")
             /\ q.kind # "note" /\ (\A o \in since : o.kind \in {"note", q.kind}) =>
                  row'.is_verified = (q.kind = "verify")
             /\ row'.reviewed_by \in {row.reviewed_by, q.by}
             /\ (\A o \in since : o.by = q.by) => row'.reviewed_by = q.by
             /\ row'.review_note \in {row.review_note, q.note}
             /\ q.note = Nothing => row'.review_note = row.review_note
             /\ q.note # Nothing /\ (\A o \in since : o.note \in {Nothing, q.note}) =>
                  row'.review_note = q.note
             /\ row'.reviewed_at = a
<1> DEFINE new == Assigned(a, request[a], loaded[a])
           since == After(events, base[a])
<1>1. /\ events \in Seq(Action) /\ row \in Columns /\ pc[a] = "decide" /\ ~IsResolution(a)
      /\ loaded[a] \in Columns /\ new \in Columns
      /\ base[a] \in Nat /\ base[a] <= Len(events)
  BY AssignedColumns DEF Decide, ReviewInv, ReviewType, TypeOK, LoadsAreFresh
<1>2. /\ events' = Append(events, a) /\ UNCHANGED <<request, base, loaded>>
      /\ row' = Updated(row, loaded[a], new)
  BY DEF Decide, Audited
<1>3. request[a].kind \in {"verify", "unverify", "note"}
  BY <1>1, RequestType DEF ReviewInv, ReviewType, IsResolution, Kinds
<1>4. /\ row'.is_verified = Written(row.is_verified, loaded[a].is_verified, new.is_verified)
      /\ row'.review_note = Written(row.review_note, loaded[a].review_note, new.review_note)
      /\ row'.reviewed_by = Written(row.reviewed_by, loaded[a].reviewed_by, new.reviewed_by)
  BY <1>1, <1>2, UpdatedColumns
<1>5. /\ new.is_verified = Verified(request[a], loaded[a])
      /\ new.review_note = NoteOf(request[a], loaded[a])
      /\ new.reviewed_by = request[a].by
  BY DEF Assigned, ReviewerOf
<1>6. /\ (\A o \in since : o.kind \in {"note", BadgeOf(loaded[a].is_verified)}) =>
           row.is_verified = loaded[a].is_verified
      /\ (\A o \in since : o.by = loaded[a].reviewed_by) =>
           row.reviewed_by = loaded[a].reviewed_by
      /\ (\A o \in since : o.note \in {Nothing, loaded[a].review_note}) =>
           row.review_note = loaded[a].review_note
  BY <1>1 DEF PendingReview
<1> HIDE DEF new, since
<1>7. /\ request[a].kind = "note" => row'.is_verified = row.is_verified
      /\ request[a].kind # "note" => \/ row'.is_verified = row.is_verified
                                     \/ row'.is_verified = (request[a].kind = "verify")
  BY <1>3, <1>4, <1>5 DEF Verified, Written
<1>8. ASSUME request[a].kind # "note", \A o \in since : o.kind \in {"note", request[a].kind}
      PROVE  row'.is_verified = (request[a].kind = "verify")
  <2>1. loaded[a].is_verified \in BOOLEAN /\ new.is_verified = (request[a].kind = "verify")
    BY <1>1, <1>3, <1>5, <1>8 DEF Verified, Columns
  <2>2. CASE loaded[a].is_verified = new.is_verified
    <3>1. BadgeOf(loaded[a].is_verified) = request[a].kind
      BY <1>3, <1>8, <2>1, <2>2 DEF BadgeOf
    <3>2. row.is_verified = loaded[a].is_verified
      BY <1>6, <1>8, <3>1
    <3>3. QED
      BY <1>4, <2>1, <2>2, <3>2 DEF Written
  <2>3. CASE loaded[a].is_verified # new.is_verified
    BY <1>4, <2>1, <2>3 DEF Written
  <2>4. QED
    BY <2>2, <2>3
<1>9. /\ row'.reviewed_by \in {row.reviewed_by, request[a].by}
      /\ (\A o \in since : o.by = request[a].by) => row'.reviewed_by = request[a].by
  BY <1>4, <1>5, <1>6 DEF Written
<1>10. /\ row'.review_note \in {row.review_note, request[a].note}
       /\ request[a].note = Nothing => row'.review_note = row.review_note
       /\ request[a].note # Nothing /\ (\A o \in since : o.note \in {Nothing, request[a].note}) =>
            row'.review_note = request[a].note
  BY <1>4, <1>5, <1>6 DEF Written, NoteOf
<1>11. row'.reviewed_at = a
  BY DecideNames
<1>12. Overtaking(events, Len(events))' = since
  <2>1. events'[Len(events')] = a
    BY <1>1, <1>2, Appended
  <2>2. {request[Append(events, a)[k]] : k \in (base[a] + 1)..(Len(Append(events, a)) - 1)} = since
    BY <1>1, AfterAppended, ZenonT(30) DEF since
  <2>3. Overtaking(events, Len(events))' =
          {request[Append(events, a)[k]] : k \in (base[a] + 1)..(Len(Append(events, a)) - 1)}
    BY <1>2, <2>1 DEF Overtaking
  <2>4. QED
    BY <2>2, <2>3
<1>13. Last(events') = a /\ Len(events') = Len(events) + 1
  BY <1>1, <1>2, Appended DEF Last
<1>14. /\ Len(events) \in Nat /\ DOMAIN events = 1..Len(events)
       /\ DOMAIN events' = DOMAIN events \cup {Len(events) + 1} /\ events'[Len(events) + 1] = a
  BY <1>1, <1>2, Appended
<1>15. QED
  BY <1>2, <1>3, <1>7, <1>8, <1>9, <1>10, <1>11, <1>12, <1>13, <1>14 DEF since

LEMMA PendingReviewStep == ReviewInv /\ PendingReview /\ [Next]_vars => PendingReview'
<1> SUFFICES ASSUME ReviewInv, PendingReview, [Next]_vars PROVE PendingReview'
  OBVIOUS
<1>t. /\ events \in Seq(Action) /\ pc \in [Action -> {"load", "decide", "done"}]
      /\ loaded \in [Action -> Columns \cup ReportColumns] /\ base \in [Action -> Nat]
  BY DEF ReviewInv, ReviewType, TypeOK
<1>1. ASSUME NEW a \in Action, Load(a) PROVE PendingReview'
  <2>1. /\ pc' = [pc EXCEPT ![a] = "decide"]
        /\ loaded' = [loaded EXCEPT ![a] = IF IsResolution(a) THEN report ELSE row]
        /\ base' = [base EXCEPT ![a] = IF IsResolution(a) THEN Len(updates) ELSE Len(events)]
        /\ UNCHANGED <<request, row, events>>
    BY <1>1 DEF Load, reviewVars
  <2>2. \A b \in Action \ {a} : pc'[b] = pc[b] /\ loaded'[b] = loaded[b] /\ base'[b] = base[b]
    BY <1>t, <2>1
  <2>3. ~IsResolution(a) => loaded'[a] = row
    BY <1>t, <2>1
  <2>4. QED
    BY <2>1, <2>2, <2>3, SMTT(30) DEF PendingReview, IsResolution, After
<1>2. ASSUME NEW a \in Action, Decide(a) PROVE PendingReview'
  <2>1. /\ events' = Append(events, a) /\ pc' = [pc EXCEPT ![a] = "done"]
        /\ UNCHANGED <<request, loaded, base>>
    BY <1>2 DEF Decide, Audited
  <2>2. LET q == request[a]
        IN  /\ q.kind \in {"verify", "unverify", "note"}
            /\ q.kind = "note" => row'.is_verified = row.is_verified
            /\ q.kind # "note" => \/ row'.is_verified = row.is_verified
                                  \/ row'.is_verified = (q.kind = "verify")
            /\ row'.reviewed_by \in {row.reviewed_by, q.by}
            /\ row'.review_note \in {row.review_note, q.note}
            /\ q.note = Nothing => row'.review_note = row.review_note
    BY <1>2, DecideEffect
  <2>3. SUFFICES ASSUME NEW b \in Action, pc'[b] = "decide", ~IsResolution(b)
                 PROVE  LET since == After(events, base[b])'
                        IN  /\ (\A o \in since : o.kind \in {"note", BadgeOf(loaded[b].is_verified)}) =>
                                 row'.is_verified = loaded[b].is_verified
                            /\ (\A o \in since : o.by = loaded[b].reviewed_by) =>
                                 row'.reviewed_by = loaded[b].reviewed_by
                            /\ (\A o \in since : o.note \in {Nothing, loaded[b].review_note}) =>
                                 row'.review_note = loaded[b].review_note
    BY <2>1 DEF PendingReview, IsResolution
  <2>4. pc[b] = "decide" /\ loaded[b] \in Columns /\ base[b] \in Nat /\ base[b] <= Len(events)
    <3>1. pc[b] = "decide"
      BY <1>t, <2>1, <2>3
    <3>2. QED
      BY <1>t, <2>3, <3>1 DEF ReviewInv, ReviewType, LoadedItsTable, LoadsAreFresh
  <2>5. After(events, base[b])' = After(events, base[b]) \cup {request[a]}
    <3>1. After(events, base[b])' = {request[events'[k]] : k \in (base[b] + 1)..Len(events')}
      BY <2>1 DEF After
    <3>2. After(Append(events, a), base[b]) = After(events, base[b]) \cup {request[a]}
      BY <1>t, <2>4, AfterAppended
    <3>3. QED
      BY <2>1, <3>1, <3>2 DEF After
  <2>6. /\ (\A o \in After(events, base[b]) : o.kind \in {"note", BadgeOf(loaded[b].is_verified)}) =>
             row.is_verified = loaded[b].is_verified
        /\ (\A o \in After(events, base[b]) : o.by = loaded[b].reviewed_by) =>
             row.reviewed_by = loaded[b].reviewed_by
        /\ (\A o \in After(events, base[b]) : o.note \in {Nothing, loaded[b].review_note}) =>
             row.review_note = loaded[b].review_note
    BY <2>3, <2>4 DEF PendingReview
  <2>7. loaded[b].is_verified \in BOOLEAN
    BY <2>4 DEF Columns
  <2>8. request[a].kind = BadgeOf(loaded[b].is_verified) =>
          loaded[b].is_verified = (request[a].kind = "verify")
    BY <2>7 DEF BadgeOf
  <2>9. (\A o \in After(events, base[b])' : o.kind \in {"note", BadgeOf(loaded[b].is_verified)}) =>
          row'.is_verified = loaded[b].is_verified
    BY <2>2, <2>5, <2>6, <2>8
  <2>10. /\ (\A o \in After(events, base[b])' : o.by = loaded[b].reviewed_by) =>
              row'.reviewed_by = loaded[b].reviewed_by
         /\ (\A o \in After(events, base[b])' : o.note \in {Nothing, loaded[b].review_note}) =>
              row'.review_note = loaded[b].review_note
    BY <2>2, <2>5, <2>6
  <2>11. QED
    BY <2>9, <2>10
<1>3. CASE UNCHANGED vars \/ Read \/ \E a \in Action : Resolve(a) \/ Abandon(a)
  <2>1. /\ UNCHANGED <<request, row, events, loaded, base>>
        /\ \A b \in Action : pc'[b] = "decide" => pc[b] = "decide"
    BY <1>3, <1>t DEF vars, Read, ReadRow, ReadTrail, Resolve, Abandon, reviewVars
  <2>2. QED
    BY <2>1 DEF PendingReview, IsResolution, After
<1>4. QED
  BY <1>1, <1>2, <1>3 DEF Next

LEMMA Pending == Spec => []PendingReview
<1>1. Init => PendingReview
  BY DEF Init, PendingReview
<1>2. QED
  BY <1>1, PendingReviewStep, Review, PTL DEF Spec

LEMMA LatestIs ==
  ASSUME NEW I \in SUBSET Int, NEW i \in I, \A k \in I : k <= i
  PROVE  Latest(I) = i
<1>1. \A j \in I : (\A k \in I : k <= j) => j = i
  OBVIOUS
<1>2. QED
  BY <1>1 DEF Latest

\* An event is overtaken by what it was overtaken by when it was committed.
LEMMA OvertakingStays ==
  ASSUME ReviewInv, [Next]_vars, NEW i \in DOMAIN events
  PROVE  Overtaking(events, i)' = Overtaking(events, i)
<1>1. /\ events \in Seq(Action) /\ i \in 1..Len(events) /\ Len(events) \in Nat
      /\ base[events[i]] \in Nat
  BY DEF ReviewInv, ReviewType, TypeOK
<1>2. /\ UNCHANGED request
      /\ \A k \in DOMAIN events : /\ k \in DOMAIN events' /\ events'[k] = events[k]
                                  /\ base'[events[k]] = base[events[k]]
  BY EarlierEventsStay
<1>3. \A k \in (base[events[i]] + 1)..(i - 1) : k \in DOMAIN events
  BY <1>1
<1>4. QED
  BY <1>2, <1>3 DEF Overtaking

\* The latest decision, and what the badge says if it was not contradicted.
BadgeInv ==
  Decisions # {} =>
    \E i \in Decisions :
      /\ \A k \in Decisions : k <= i
      /\ (\A o \in Overtaking(events, i) : o.kind \in {"note", request[events[i]].kind}) =>
           row.is_verified = (request[events[i]].kind = "verify")

LEMMA BadgeStep == ReviewInv /\ PendingReview /\ BadgeInv /\ [Next]_vars => BadgeInv'
<1> SUFFICES ASSUME ReviewInv, PendingReview, BadgeInv, [Next]_vars PROVE BadgeInv'
  OBVIOUS
<1>1. /\ UNCHANGED request
      /\ \A i \in DOMAIN events : i \in DOMAIN events' /\ events'[i] = events[i]
  BY EarlierEventsStay
<1>2. \A i \in DOMAIN events : Overtaking(events, i)' = Overtaking(events, i)
  BY OvertakingStays
<1>3. CASE UNCHANGED <<row, events>>
  <2>1. Decisions' = Decisions
    BY <1>1, <1>3 DEF Decisions
  <2>2. QED
    BY <1>1, <1>2, <1>3, <2>1 DEF BadgeInv, Decisions
<1>4. ASSUME NEW a \in Action, Decide(a) PROVE BadgeInv'
  <2>e. LET n == Len(events)
            since == After(events, base[a])
        IN  /\ n \in Nat /\ DOMAIN events = 1..n
            /\ DOMAIN events' = DOMAIN events \cup {n + 1} /\ events'[n + 1] = a
            /\ Len(events') = n + 1
            /\ Overtaking(events, Len(events))' = since
            /\ request[a].kind = "note" => row'.is_verified = row.is_verified
            /\ request[a].kind # "note" /\ (\A o \in since : o.kind \in {"note", request[a].kind}) =>
                 row'.is_verified = (request[a].kind = "verify")
    BY <1>4, DecideEffect
  <2>1. CASE request[a].kind = "note"
    <3>1. Decisions' = Decisions
      BY <1>1, <2>1, <2>e DEF Decisions
    <3>2. QED
      BY <1>1, <1>2, <2>1, <2>e, <3>1 DEF BadgeInv, Decisions
  <2>2. CASE request[a].kind # "note"
    <3>1. PICK m \in Nat : m = Len(events) + 1
      BY <2>e
    <3>2. Decisions' = Decisions \cup {m}
      BY <1>1, <2>2, <2>e, <3>1 DEF Decisions
    <3>3. \A k \in Decisions' : k <= m
      BY <2>e, <3>1, <3>2 DEF Decisions
    <3>4. events'[m] = a /\ Overtaking(events, m)' = After(events, base[a])
      BY <2>e, <3>1 DEF Overtaking
    <3>5. QED
      BY <1>1, <2>2, <2>e, <3>2, <3>3, <3>4 DEF BadgeInv
  <2>3. QED
    BY <2>1, <2>2
<1>5. QED
  BY <1>3, <1>4, EarlierEventsStay

\* review-workflow.md:270: the latest decision is the badge that readers see,
\* however many notes and decisions of its own kind overlap it, and whatever
\* notes follow it.
THEOREM BadgesSettle == Spec => []BadgeSettles
<1>1. Init => BadgeInv
  BY DEF Init, BadgeInv, Decisions
<1>2. ASSUME ReviewInv, BadgeInv, Decisions # {} PROVE BadgeSettles
  <2>1. PICK i \in Decisions :
          /\ \A k \in Decisions : k <= i
          /\ (\A o \in Overtaking(events, i) : o.kind \in {"note", request[events[i]].kind}) =>
               row.is_verified = (request[events[i]].kind = "verify")
    BY <1>2 DEF BadgeInv
  <2>2. Decisions \in SUBSET Int
    BY <1>2 DEF Decisions, ReviewInv, ReviewType, TypeOK
  <2>3. Latest(Decisions) = i
    BY <2>1, <2>2, LatestIs
  <2>4. QED
    BY <2>1, <2>3 DEF BadgeSettles
<1>3. ReviewInv /\ BadgeInv => BadgeSettles
  BY <1>2 DEF BadgeSettles
<1>4. Spec => []BadgeInv
  BY <1>1, BadgeStep, Pending, Review, PTL DEF Spec
<1>5. QED
  BY <1>3, <1>4, Review, PTL

LEMMA LatestStep ==
  ReviewInv /\ PendingReview /\ LatestReviewShows /\ [Next]_vars => LatestReviewShows'
<1> SUFFICES ASSUME ReviewInv, PendingReview, LatestReviewShows, [Next]_vars
             PROVE  LatestReviewShows'
  OBVIOUS
<1>1. CASE UNCHANGED <<row, events>>
  <2>1. events # <<>> => Len(events) \in DOMAIN events
    BY DEF ReviewInv, ReviewType, TypeOK
  <2>2. events # <<>> => Overtaking(events, Len(events))' = Overtaking(events, Len(events))
    <3> SUFFICES ASSUME events # <<>>
                 PROVE  Overtaking(events, Len(events))' = Overtaking(events, Len(events))
      OBVIOUS
    <3>1. PICK n \in DOMAIN events : n = Len(events)
      BY <2>1
    <3>2. Overtaking(events, n)' = Overtaking(events, n)
      BY OvertakingStays
    <3>3. QED
      BY <1>1, <3>1, <3>2 DEF Overtaking
  <2>3. UNCHANGED request
    BY EarlierEventsStay
  <2>4. QED
    BY <1>1, <2>2, <2>3 DEF LatestReviewShows
<1>2. ASSUME NEW a \in Action, Decide(a) PROVE LatestReviewShows'
  <2>1. LET n == Len(events)
            q == request[a]
            since == After(events, base[a])
        IN  /\ Last(events') = a /\ Len(events') = n + 1 /\ UNCHANGED request
            /\ Overtaking(events, Len(events))' = since
            /\ (\A o \in since : o.by = q.by) => row'.reviewed_by = q.by
            /\ q.note # Nothing /\ (\A o \in since : o.note \in {Nothing, q.note}) =>
                 row'.review_note = q.note
            /\ row'.reviewed_at = a
    BY <1>2, DecideEffect
  <2>2. QED
    BY <2>1 DEF LatestReviewShows
<1>3. QED
  BY <1>1, <1>2, EarlierEventsStay

\* review-workflow.md:271-273: the row shows the most recent review action, its
\* time always, its reviewer and its note unless it overtook somebody else's.
THEOREM LatestReviewsShow == Spec => []LatestReviewShows
<1>1. Init => LatestReviewShows
  BY DEF Init, LatestReviewShows
<1>2. QED
  BY <1>1, LatestStep, Pending, Review, PTL DEF Spec
-----------------------------------------------------------------------------
(* The report.                                                             *)

PendingReport ==
  \A a \in Action : pc[a] = "decide" /\ IsResolution(a) =>
    LET since == After(updates, base[a])
    IN  /\ (\A o \in since : o.kind = loaded[a].status) => report.status = loaded[a].status
        /\ (\A o \in since : o.note = loaded[a].resolution_note) =>
             report.resolution_note = loaded[a].resolution_note
        /\ (\A o \in since : o.by = loaded[a].resolver) => report.resolver = loaded[a].resolver
        /\ loaded[a].resolved_at = Nothing /\ (\A o \in since : o.kind \notin Final) =>
             report.resolved_at = Nothing

\* What a resolution does to its trail and to the columns.
LEMMA ResolveEffect ==
  ASSUME ReviewInv, PendingReport, NEW a \in Action, Resolve(a)
  PROVE  LET q == request[a]
             since == After(updates, base[a])
         IN  /\ updates' = Append(updates, a) /\ Last(updates') = a
             /\ UNCHANGED <<request, base, loaded>>
             /\ Overtaking(updates, Len(updates))' = since
             /\ report'.status \in {report.status, q.kind}
             /\ (\A o \in since : o.kind = q.kind) => report'.status = q.kind
             /\ report'.resolution_note \in {report.resolution_note, q.note}
             /\ (\A o \in since : o.note = q.note) => report'.resolution_note = q.note
             /\ report'.resolver \in {report.resolver, q.by}
             /\ (\A o \in since : o.by = q.by) => report'.resolver = q.by
             /\ q.kind \in Final => report'.resolved_at = a
             /\ q.kind \notin Final => report'.resolved_at \in {report.resolved_at, Nothing}
             /\ (\A o \in since \cup {q} : o.kind \notin Final) => report'.resolved_at = Nothing
<1> DEFINE new == Resolved(a, request[a], loaded[a])
           since == After(updates, base[a])
<1>1. /\ updates \in Seq(Action) /\ report \in ReportColumns /\ pc[a] = "decide" /\ IsResolution(a)
      /\ loaded[a].resolved_at # a /\ new \in ReportColumns
      /\ base[a] \in Nat /\ base[a] <= Len(updates)
  BY ResolvedColumns DEF Resolve, ReviewInv, ReviewType, TypeOK, LoadsAreFresh
<1>2. /\ updates' = Append(updates, a) /\ UNCHANGED <<request, base, loaded>>
      /\ report' = Updated(report, loaded[a], new)
  BY DEF Resolve, Audited
<1>3. /\ report'.status = Written(report.status, loaded[a].status, new.status)
      /\ report'.resolution_note =
           Written(report.resolution_note, loaded[a].resolution_note, new.resolution_note)
      /\ report'.resolver = Written(report.resolver, loaded[a].resolver, new.resolver)
      /\ report'.resolved_at = Written(report.resolved_at, loaded[a].resolved_at, new.resolved_at)
  BY <1>1, <1>2, UpdatedReport
<1>4. /\ new.status = request[a].kind /\ new.resolution_note = request[a].note
      /\ new.resolver = request[a].by
      /\ new.resolved_at = IF request[a].kind \in Final THEN a ELSE Nothing
  BY DEF Resolved, ResolvedAt
<1>5. /\ (\A o \in since : o.kind = loaded[a].status) => report.status = loaded[a].status
      /\ (\A o \in since : o.note = loaded[a].resolution_note) =>
           report.resolution_note = loaded[a].resolution_note
      /\ (\A o \in since : o.by = loaded[a].resolver) => report.resolver = loaded[a].resolver
      /\ loaded[a].resolved_at = Nothing /\ (\A o \in since : o.kind \notin Final) =>
           report.resolved_at = Nothing
  BY <1>1 DEF PendingReport
<1> HIDE DEF new, since
<1>6. /\ report'.status \in {report.status, request[a].kind}
      /\ (\A o \in since : o.kind = request[a].kind) => report'.status = request[a].kind
      /\ report'.resolution_note \in {report.resolution_note, request[a].note}
      /\ (\A o \in since : o.note = request[a].note) => report'.resolution_note = request[a].note
      /\ report'.resolver \in {report.resolver, request[a].by}
      /\ (\A o \in since : o.by = request[a].by) => report'.resolver = request[a].by
  BY <1>3, <1>4, <1>5 DEF Written
<1>7. /\ request[a].kind \in Final => report'.resolved_at = a
      /\ request[a].kind \notin Final => report'.resolved_at \in {report.resolved_at, Nothing}
      /\ (\A o \in since \cup {request[a]} : o.kind \notin Final) => report'.resolved_at = Nothing
  BY <1>1, <1>3, <1>4, <1>5 DEF Written
<1>8. Last(updates') = a /\ Len(updates') = Len(updates) + 1 /\ updates'[Len(updates')] = a
  BY <1>1, <1>2, Appended DEF Last
<1>9. Overtaking(updates, Len(updates))' = since
  <2>1. {request[Append(updates, a)[k]] : k \in (base[a] + 1)..(Len(Append(updates, a)) - 1)} = since
    BY <1>1, AfterAppended DEF since
  <2>2. Overtaking(updates, Len(updates))' =
          {request[Append(updates, a)[k]] : k \in (base[a] + 1)..(Len(Append(updates, a)) - 1)}
    BY <1>2, <1>8 DEF Overtaking
  <2>3. QED
    BY <2>1, <2>2
<1>10. QED
  BY <1>2, <1>6, <1>7, <1>8, <1>9 DEF since

LEMMA PendingReportStep == ReviewInv /\ PendingReport /\ [Next]_vars => PendingReport'
<1> SUFFICES ASSUME ReviewInv, PendingReport, [Next]_vars PROVE PendingReport'
  OBVIOUS
<1>t. /\ updates \in Seq(Action) /\ pc \in [Action -> {"load", "decide", "done"}]
      /\ loaded \in [Action -> Columns \cup ReportColumns] /\ base \in [Action -> Nat]
  BY DEF ReviewInv, ReviewType, TypeOK
<1>1. ASSUME NEW a \in Action, Load(a) PROVE PendingReport'
  <2>1. /\ pc' = [pc EXCEPT ![a] = "decide"]
        /\ loaded' = [loaded EXCEPT ![a] = IF IsResolution(a) THEN report ELSE row]
        /\ base' = [base EXCEPT ![a] = IF IsResolution(a) THEN Len(updates) ELSE Len(events)]
        /\ UNCHANGED <<request, report, updates>>
    BY <1>1 DEF Load, reportVars
  <2>2. \A b \in Action \ {a} : pc'[b] = pc[b] /\ loaded'[b] = loaded[b] /\ base'[b] = base[b]
    BY <1>t, <2>1
  <2>3. IsResolution(a) => loaded'[a] = report
    BY <1>t, <2>1
  <2>4. QED
    BY <2>1, <2>2, <2>3 DEF PendingReport, IsResolution, After
<1>2. ASSUME NEW a \in Action, Resolve(a) PROVE PendingReport'
  <2>1. /\ updates' = Append(updates, a) /\ pc' = [pc EXCEPT ![a] = "done"]
        /\ UNCHANGED <<request, loaded, base>>
    BY <1>2 DEF Resolve, Audited
  <2>2. LET q == request[a]
        IN  /\ report'.status \in {report.status, q.kind}
            /\ report'.resolution_note \in {report.resolution_note, q.note}
            /\ report'.resolver \in {report.resolver, q.by}
            /\ q.kind \notin Final => report'.resolved_at \in {report.resolved_at, Nothing}
    BY <1>2, ResolveEffect
  <2>3. SUFFICES ASSUME NEW b \in Action, pc'[b] = "decide", IsResolution(b)
                 PROVE  LET since == After(updates, base[b])'
                        IN  /\ (\A o \in since : o.kind = loaded[b].status) =>
                                 report'.status = loaded[b].status
                            /\ (\A o \in since : o.note = loaded[b].resolution_note) =>
                                 report'.resolution_note = loaded[b].resolution_note
                            /\ (\A o \in since : o.by = loaded[b].resolver) =>
                                 report'.resolver = loaded[b].resolver
                            /\ loaded[b].resolved_at = Nothing /\ (\A o \in since : o.kind \notin Final) =>
                                 report'.resolved_at = Nothing
    BY <2>1 DEF PendingReport, IsResolution
  <2>4. pc[b] = "decide" /\ base[b] \in Nat /\ base[b] <= Len(updates)
    <3>1. pc[b] = "decide"
      BY <1>t, <2>1, <2>3
    <3>2. QED
      BY <1>t, <2>3, <3>1 DEF ReviewInv, LoadsAreFresh
  <2>5. After(updates, base[b])' = After(updates, base[b]) \cup {request[a]}
    <3>1. After(updates, base[b])' = {request[updates'[k]] : k \in (base[b] + 1)..Len(updates')}
      BY <2>1 DEF After
    <3>2. After(Append(updates, a), base[b]) = After(updates, base[b]) \cup {request[a]}
      BY <1>t, <2>4, AfterAppended
    <3>3. QED
      BY <2>1, <3>1, <3>2 DEF After
  <2>6. LET since == After(updates, base[b])
        IN  /\ (\A o \in since : o.kind = loaded[b].status) => report.status = loaded[b].status
            /\ (\A o \in since : o.note = loaded[b].resolution_note) =>
                 report.resolution_note = loaded[b].resolution_note
            /\ (\A o \in since : o.by = loaded[b].resolver) => report.resolver = loaded[b].resolver
            /\ loaded[b].resolved_at = Nothing /\ (\A o \in since : o.kind \notin Final) =>
                 report.resolved_at = Nothing
    BY <2>3, <2>4 DEF PendingReport
  <2>7. QED
    BY <2>2, <2>5, <2>6
<1>3. CASE UNCHANGED vars \/ Read \/ \E a \in Action : Decide(a) \/ Abandon(a)
  <2>1. /\ UNCHANGED <<request, report, updates, loaded, base>>
        /\ \A b \in Action : pc'[b] = "decide" => pc[b] = "decide"
    BY <1>3, <1>t DEF vars, Read, ReadRow, ReadTrail, Decide, Abandon, reportVars
  <2>2. QED
    BY <2>1 DEF PendingReport, IsResolution, After
<1>4. QED
  BY <1>1, <1>2, <1>3 DEF Next

LEMMA UpdatesSettle ==
  ReviewInv /\ PendingReport /\ ResolutionSettles /\ [Next]_vars => ResolutionSettles'
<1> SUFFICES ASSUME ReviewInv, PendingReport, ResolutionSettles, [Next]_vars
             PROVE  ResolutionSettles'
  OBVIOUS
<1>t. /\ updates \in Seq(Action)
      /\ \A i \in DOMAIN updates : updates[i] \in Action /\ pc[updates[i]] = "done"
      /\ base \in [Action -> Nat]
  BY DEF ReviewInv, ReviewType, TypeOK, EventsAreDone
<1>1. CASE UNCHANGED vars \/ Read \/ \E a \in Action : Decide(a) \/ Abandon(a)
  <2>1. UNCHANGED <<request, report, updates, base>>
    BY <1>1 DEF vars, Read, ReadRow, ReadTrail, Decide, Abandon, reportVars
  <2>2. QED
    BY <2>1 DEF ResolutionSettles, Overtaking
<1>2. ASSUME NEW a \in Action, Load(a) PROVE ResolutionSettles'
  <2>1. /\ pc[a] = "load" /\ UNCHANGED <<request, report, updates>>
        /\ base' = [base EXCEPT ![a] = IF IsResolution(a) THEN Len(updates) ELSE Len(events)]
    BY <1>2 DEF Load, reportVars
  <2>2. updates # <<>> => base'[updates[Len(updates)]] = base[updates[Len(updates)]]
    <3>1. updates # <<>> => Len(updates) \in DOMAIN updates
      BY <1>t
    <3>2. QED
      BY <1>t, <2>1, <3>1
  <2>3. updates # <<>> => Overtaking(updates, Len(updates))' = Overtaking(updates, Len(updates))
    BY <2>1, <2>2 DEF Overtaking
  <2>4. QED
    BY <2>1, <2>3 DEF ResolutionSettles
<1>3. ASSUME NEW a \in Action, Resolve(a) PROVE ResolutionSettles'
  BY <1>3, ResolveEffect DEF ResolutionSettles
<1>4. QED
  BY <1>1, <1>2, <1>3 DEF Next

\* reports.py:88: the latest resolution leaves the report as its own, column by
\* column, unless it overtook one that disagrees; a final status always comes
\* with its resolution time.
THEOREM ResolutionsSettle == Spec => []ResolutionSettles
<1>1. Init => ResolutionSettles /\ PendingReport
  BY DEF Init, ResolutionSettles, PendingReport
<1>2. Spec => []PendingReport
  BY <1>1, PendingReportStep, Review, PTL DEF Spec
<1>3. QED
  BY <1>1, <1>2, UpdatesSettle, Review, PTL DEF Spec
-----------------------------------------------------------------------------
(* The page.                                                               *)

\* The action a row names has its event, and so has the one that the row read
\* by the page names, before the page reads the trail and on it.
NamedActionsAreAudited ==
  /\ row.reviewed_at # Nothing => row.reviewed_at \in ToSet(events)
  /\ reader.at # "idle" /\ reader.row.reviewed_at # Nothing =>
       reader.row.reviewed_at \in ToSet(events)
  /\ TrailExplainsRow

LEMMA PageStep ==
  ReviewInv /\ NamedActionsAreAudited /\ [Next]_vars => NamedActionsAreAudited'
<1> SUFFICES ASSUME ReviewInv, NamedActionsAreAudited, [Next]_vars
             PROVE  NamedActionsAreAudited'
  OBVIOUS
<1>t. /\ events \in Seq(Action)
      /\ reader \in [at : {"idle", "context", "shown"}, row : Columns, trail : SUBSET Action]
  BY DEF ReviewInv, ReviewType, TypeOK
<1>1. CASE Read
  <2>1. UNCHANGED <<row, events>>
    BY <1>1 DEF Read, ReadRow, ReadTrail, reviewVars
  <2>2. CASE ReadRow
    <3>1. reader'.at = "context" /\ reader'.row = row
      BY <1>t, <2>2 DEF ReadRow
    <3>2. QED
      BY <2>1, <3>1 DEF NamedActionsAreAudited, TrailExplainsRow
  <2>3. CASE ReadTrail
    <3>1. reader.at = "context" /\ reader'.row = reader.row /\ reader'.trail = ToSet(events)
      BY <1>t, <2>3 DEF ReadTrail
    <3>2. QED
      BY <2>1, <3>1 DEF NamedActionsAreAudited, TrailExplainsRow
  <2>4. QED
    BY <1>1, <2>2, <2>3 DEF Read
<1>2. ASSUME NEW a \in Action, Decide(a) PROVE NamedActionsAreAudited'
  <2>1. row'.reviewed_at \in {row.reviewed_at, a}
    BY <1>2, DecideNames
  <2>2. events' = Append(events, a) /\ UNCHANGED reader
    BY <1>2 DEF Decide, Audited
  <2>3. ToSet(events') = ToSet(events) \cup {a}
    BY <1>t, <2>2, Appended DEF ToSet
  <2>4. QED
    BY <2>1, <2>2, <2>3 DEF NamedActionsAreAudited, TrailExplainsRow
<1>3. CASE UNCHANGED vars \/ \E a \in Action : Load(a) \/ Resolve(a) \/ Abandon(a)
  <2>1. UNCHANGED <<row, events, reader>>
    BY <1>3 DEF vars, Load, Resolve, Abandon, reviewVars
  <2>2. QED
    BY <2>1 DEF NamedActionsAreAudited, TrailExplainsRow
<1>4. QED
  BY <1>1, <1>2, <1>3 DEF Next

\* admin.py:259: although the page reads the row and the trail in two SELECTs,
\* the trail has the action that the row says was the last.
THEOREM TrailsExplainRows == Spec => []TrailExplainsRow
<1>1. Init => NamedActionsAreAudited
  BY DEF Init, NamedActionsAreAudited, TrailExplainsRow, NotReading, Unreviewed
<1>2. Spec => []NamedActionsAreAudited
  BY <1>1, PageStep, Review, PTL DEF Spec
<1>3. QED
  BY <1>2, PTL DEF NamedActionsAreAudited
=============================================================================
