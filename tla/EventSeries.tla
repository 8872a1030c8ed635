----------------------------- MODULE EventSeries -----------------------------
(***************************************************************************)
(* A recurring event of app/routes/events.py.  The series is kept as one   *)
(* row per occurrence; its desk edits, moves, cancels and deletes          *)
(* occurrences one at a time or by scope, changes the range of the         *)
(* recurrence, and pulls the Nextcloud calendar into the same table.  A    *)
(* request reads the rows it needs, works out its changes, and commits     *)
(* them later: others may have committed in between.                       *)
(***************************************************************************)
EXTENDS Integers, Sequences, FiniteSets, FiniteSetsExt

CONSTANTS
  Ids,           \* room for rows of events: 1..n
  Before,        \* the days before each month, and those of the whole calendar, a sequence
  Period,        \* the days of a week
  Slack,         \* how far a gap may be off when the cadence is inferred
  Kinds,         \* the recurrences a series is created with, a subset of AllKinds
  MaxCount,      \* MAX_SERIES_OCCURRENCES
  MaxDay,        \* bound on the days that pass
  Ends,          \* the days a range may be asked to start and end at
  CalDates,      \* the days of the entries in the Nextcloud calendar
  MaxTexts,      \* bound on the contents: those of the calendar are 0, those first written 1
  MaxMoves,      \* bound on the rows moved to another day
  MaxActive,     \* bound on the requests in progress at once
  MaxRequests    \* bound on the requests begun

VARIABLES
  row,      \* the table events
  now,      \* today
  req,      \* the requests in progress
  begun, texts,
  crossed,  \* history: the kinds of requests that overlapped, "pass" for a day
  kind,     \* history: the recurrence the series was created with
  moved,    \* history: rows whose day was changed
  byHand,   \* history: rows cancelled by hand
  held,     \* history: rows that took place
  wide,     \* history: the last edit of the contents was series-wide
  window,   \* history: the range last asked for, while nothing else changed it
  gone,     \* history: days whose synced event was deleted
  renamed   \* history: synced rows whose title was changed

hist == <<kind, moved, byHand, held, wide, window, gone, renamed>>
vars == <<row, now, req, begun, texts, crossed, hist>>

\* The lengths of the months.
Months == [m \in 1..(Len(Before) - 1) |-> Before[m + 1] - Before[m]]
LastDay == Before[Len(Before)]
Days == 1..LastDay
ASSUME CalendarAssumption ==
  /\ Before \in Seq(0..LastDay) /\ Len(Before) > 1
  /\ \A m \in DOMAIN Months : Months[m] > 0
  /\ \A d \in Days : \E m \in DOMAIN Months : Before[m] < d /\ d <= Before[m] + Months[m]
AllKinds == [rule : {"weekly"}, day : {0}] \cup [rule : {"monthly"}, day : 1..9]
NoKind == [rule |-> "none", day |-> 0]
ASSUME SeriesAssumption ==
  /\ Kinds \subseteq AllKinds /\ Ends \subseteq Days /\ CalDates \subseteq Days
  /\ Ids \subseteq Nat \ {0} /\ IsFiniteSet(Ids)
  /\ {Period, MaxTexts} \subseteq Nat \ {0}
  /\ {Slack, MaxCount, MaxDay, MaxMoves, MaxActive, MaxRequests} \subseteq Nat
Slots == 1..MaxActive
\* A row has a title, 0 that of the calendar, and contents: place and description.
NoRow == [date |-> 0, status |-> "none", title |-> 0, text |-> 0, series |-> FALSE, master |-> FALSE]
NoWindow == [on |-> FALSE, from |-> 0, to |-> 0, anchor |-> 0, at |-> 0, rule |-> "none"]
NoRequest == [pc |-> "none"]
Rows == {i \in Ids : row[i] # NoRow}
Series == {i \in Rows : row[i].series}
Active(i) == row[i].status = "active"
Dates(S) == {row[i].date : i \in S}

MonthOf == [d \in Days |-> CHOOSE m \in DOMAIN Months : Before[m] < d /\ d <= Before[m] + Months[m]]
\* _step_occurrence: a month too short for the day has it on its last.
OnDay(m, day) == Before[m] + IF day <= Months[m] THEN day ELSE Months[m]

\* generate_series_starts: dateutil leaves out the months without the day.
SeriesStarts(k, from) ==
  LET all == IF k.rule = "weekly" THEN {d \in Days : d >= from /\ (d - from) % Period = 0}
             ELSE {Before[m] + k.day : m \in {n \in DOMAIN Months : k.day <= Months[n]}}
  IN  {d \in all : d >= from /\ Cardinality({c \in all : from <= c /\ c <= d}) <= MaxCount}

\* Types; a row has a day, and the series at most one master.
RowType == [date : Days, status : {"active", "cancelled"}, title : 0..MaxTexts, text : 0..MaxTexts,
            series : BOOLEAN, master : BOOLEAN]
TypeOK ==
  /\ \A i \in Rows : row[i] \in RowType
  /\ \A i, j \in Rows : row[i].master /\ row[j].master => i = j
  /\ now \in 0..LastDay /\ begun \in 0..MaxRequests

\* create_event with a recurrence: a row per occurrence, the first the master.  The
\* calendar may have an entry of the same title.
Created(S) ==
  [i \in Ids |->
     IF i > Cardinality(S) THEN NoRow
     ELSE [date |-> CHOOSE d \in S : Cardinality({c \in S : c < d}) = i - 1, status |-> "active",
           title |-> 0, text |-> 1, series |-> TRUE, master |-> i = 1]]

Init ==
  /\ kind \in Kinds
  /\ row = Created(SeriesStarts(kind, IF kind.rule = "weekly" THEN Period ELSE kind.day))
  /\ now = 0 /\ req = [r \in Slots |-> NoRequest] /\ begun = 0 /\ texts = 1 /\ crossed = {}
  /\ moved = {} /\ byHand = {} /\ held = {} /\ wide = TRUE /\ window = NoWindow
  /\ gone = {} /\ renamed = {}

\* A request reads and works out the rows as it would have them; those it
\* adds are numbered when it commits.  It updates all it has in hand, if only the
\* time of the change.
Begin(new, adds, dels, updates, mark) ==
  /\ begun < MaxRequests /\ begun' = begun + 1
  /\ \E r \in Slots :
       /\ req[r] = NoRequest /\ \A q \in Slots : q < r => req[q] # NoRequest
       /\ req' = [req EXCEPT ![r] = [pc |-> "commit", old |-> row, new |-> new, adds |-> adds,
                                     dels |-> dels, updates |-> updates, mark |-> mark]]
       /\ crossed' = crossed \cup {{mark.op, req[q].mark.op} : q \in {p \in Slots \ {r} : req[p] # NoRequest}}

-----------------------------------------------------------------------------
\* Mutant: an edit of the series changes the later occurrences only.
LaterOnly(i, scope) ==
  IF scope = "this" \/ ~row[i].series THEN {i} ELSE {j \in Series : row[j].date >= row[i].date}
\* _resolve_series_targets.
SeriesTargets(i, scope) ==
  IF scope = "this" \/ ~row[i].series THEN {i}
  ELSE IF scope = "series" THEN Series
  ELSE {j \in Series : row[j].date >= row[i].date}
Scopes == {"this", "future", "series"}

\* edit_event: title and contents go to the occurrences in scope, the day does not.
Edit(i, scope, day, title, text) ==
  /\ i \in Rows /\ day \in Days /\ text <= MaxTexts
  /\ Cardinality(moved) < MaxMoves \/ day = row[i].date
  /\ LET there == {j \in Series : row[j].date >= day} \cup {i}
         touched == IF scope = "future" /\ row[i].series THEN there ELSE SeriesTargets(i, scope)
     IN  Begin([j \in Ids |-> [row[j] EXCEPT !.title = IF j \in touched THEN title ELSE @,
                                             !.text = IF j \in touched THEN text ELSE @,
                                             !.date = IF j = i THEN day ELSE @]],
               {}, {}, touched, [op |-> IF row[i].series THEN "edit" ELSE "rename", wide |-> scope = "series"])
  /\ texts' = IF text > texts THEN text ELSE texts
  /\ UNCHANGED <<row, now, hist>>

\* cancel_event.
Cancel(i, scope) ==
  /\ i \in Rows
  /\ Begin([j \in Ids |-> IF j \in SeriesTargets(i, scope) THEN [row[j] EXCEPT !.status = "cancelled"]
                          ELSE row[j]],
           {}, {}, SeriesTargets(i, scope), [op |-> "cancel", wide |-> FALSE])
  /\ UNCHANGED <<row, now, texts, hist>>

\* delete_event.  caldav_uid is never written: nothing is removed from the
\* Nextcloud calendar.
Delete(i, scope) ==
  /\ i \in Rows
  /\ Begin(row, {}, SeriesTargets(i, scope), {}, [op |-> "delete", wide |-> FALSE])
  /\ UNCHANGED <<row, now, texts, hist>>

-----------------------------------------------------------------------------
\* _series_cadence: the master's rule, or the gaps if they are regular.
Inferred ==
  LET D == Dates(Series)
      gaps == {g[2] - g[1] : g \in {p \in D \X D : p[1] < p[2] /\ ~\E e \in D : p[1] < e /\ e < p[2]}}
      day(d) == d - Before[MonthOf[d]]
      near(g, n) == n - Slack <= g /\ g <= n + Slack
      apart == gaps # {} /\ Cardinality(D) = Cardinality(Series)
  IN  CASE apart /\ \A g \in gaps : near(g, Period)
             -> [rule |-> "weekly", day |-> 0]
        [] /\ apart /\ Cardinality({day(d) : d \in D}) = 1
           /\ \A g \in gaps : \E m \in DOMAIN Months : near(g, Months[m]) /\ ~near(g, Period)
             -> [rule |-> "monthly", day |-> CHOOSE n \in {day(d) : d \in D} : TRUE]
        [] OTHER -> NoKind
Cadence == IF \E i \in Series : row[i].master THEN kind ELSE Inferred

\* Mutant: an occurrence on the last day of the range is left out.
ShortOfEnd(anchor, cadence, from, to) ==
  {d \in from..(to - 1) : (d - anchor) % Period = 0 \/ cadence.rule = "monthly"}
\* _occurrences_between: from the anchor back to the start, and on.
OccurrencesBetween(anchor, cadence, from, to) ==
  LET monthly == {OnDay(m, cadence.day) : m \in DOMAIN Months}
      walked == IF cadence.rule = "weekly" THEN {d \in Days : (d - anchor) % Period = 0}
                ELSE IF anchor > from THEN monthly
                ELSE {anchor} \cup {d \in monthly : MonthOf[d] > MonthOf[anchor]}
  IN  walked \cap (from..to)

\* Mutant: past occurrences are cancelled as well.
AllOutside(targets) == {i \in Series : row[i].date \notin targets /\ Active(i)}
\* "past occurrences are never touched"
Outside(targets) == {i \in Series : row[i].date > now /\ row[i].date \notin targets /\ Active(i)}

\* Mutant: the clone has the contents the series was created with.
Uncloned(day, anchor) == [NoRow EXCEPT !.date = day, !.status = "active", !.series = TRUE]
\* A missing occurrence is a clone of the earliest one.
Clone(day, anchor) == [row[anchor] EXCEPT !.date = day, !.status = "active", !.master = FALSE]

\* edit_series_recurrence: the range defaults to that of the rows.
RowRange == {d \in Dates(Series) : (\A c \in Dates(Series) : c <= d) \/ (\A c \in Dates(Series) : d <= c)}
Recur(from, to) ==
  LET first == Min(Dates(Series))
      anchor == CHOOSE i \in Series : row[i].date = first
      targets == OccurrencesBetween(first, Cadence, from, to)
      out == Outside(targets)
  IN  /\ Series # {} /\ from <= to /\ Cadence # NoKind
      /\ Begin([i \in Ids |-> IF i \in out THEN [row[i] EXCEPT !.status = "cancelled"] ELSE row[i]],
               {Clone(d, anchor) : d \in targets \ Dates(Series)}, {}, out,
               [op |-> "recur", wide |-> FALSE,
                window |-> [on |-> TRUE, from |-> from, to |-> to, anchor |-> first, at |-> now,
                            rule |-> Cadence.rule]])
      /\ UNCHANGED <<row, now, texts, hist>>

\* Mutant: an entry is looked for among the synced rows that are not cancelled.
MatchedActive(day) == {i \in Rows : row[i].title = 0 /\ row[i].date = day /\ Active(i)}
\* The rows of the same title and day as an entry of the calendar.
Matched(day) == {i \in Rows : row[i].title = 0 /\ row[i].date = day}

\* sync_calendar: an entry that has no row gets one, and a row that has one gets its
\* place and description, where the entry has them; two rows for an entry fail the
\* whole sync.
Sync ==
  LET found(dates) == UNION {Matched(d) : d \in dates}
  IN  /\ \A d \in CalDates : Cardinality(Matched(d)) <= 1
      /\ \E described \in SUBSET CalDates :
           Begin([i \in Ids |-> IF i \in found(described) THEN [row[i] EXCEPT !.text = 0] ELSE row[i]],
                 {[NoRow EXCEPT !.date = d, !.status = "active"] : d \in {c \in CalDates : Matched(c) = {}}},
                 {}, found(CalDates), [op |-> "sync", wide |-> FALSE])
      /\ UNCHANGED <<row, now, texts, hist>>

-----------------------------------------------------------------------------
\* Only what a request changed is written; a change of a row deleted
\* meanwhile fails it (StaleDataError).
Written(q, i) ==
  [date |-> IF q.new[i].date = q.old[i].date THEN row[i].date ELSE q.new[i].date,
   status |-> IF q.new[i].status = q.old[i].status THEN row[i].status ELSE q.new[i].status,
   title |-> IF q.new[i].title = q.old[i].title THEN row[i].title ELSE q.new[i].title,
   text |-> IF q.new[i].text = q.old[i].text THEN row[i].text ELSE q.new[i].text,
   series |-> row[i].series, master |-> row[i].master]
Changed(q) == {i \in Ids : q.new[i] # q.old[i]}
Stale(q) == \E i \in q.updates : row[i] = NoRow

\* The numbers that no row has, or had when a request in progress began: PostgreSQL
\* gives a number once.
Unused(table) == {i \in Ids : table[i] = NoRow /\ \A r \in Slots : req[r] = NoRequest \/ req[r].old[i] = NoRow}
\* The rows added, each with an unused number, in the order of their days.
WithAdded(table, adds) ==
  LET free == Unused(table)
      place(a) == CHOOSE i \in free :
                    Cardinality({j \in free : j < i}) = Cardinality({b \in adds : b.date < a.date})
  IN  [i \in Ids |-> IF \E a \in adds : place(a) = i
                     THEN CHOOSE a \in adds : place(a) = i ELSE table[i]]

Commit(r) ==
  LET q == req[r]
      kept == [i \in Ids |-> IF i \in q.dels THEN NoRow ELSE IF i \in Changed(q) THEN Written(q, i) ELSE row[i]]
      op == q.mark.op
      retext == \E i \in Ids : q.new[i].text # q.old[i].text
      new == {i \in Ids : row[i] = NoRow}
  IN  /\ q.pc = "commit" /\ ~Stale(q)
      /\ Cardinality(Unused(kept)) >= Cardinality(q.adds)
      /\ row' = WithAdded(kept, q.adds)
      /\ req' = [req EXCEPT ![r] = NoRequest]
      /\ moved' = (moved \ new) \cup {i \in Ids : q.new[i].date # q.old[i].date}
      /\ byHand' = (byHand \ new) \cup (IF op = "cancel" THEN Changed(q) ELSE {})
      /\ held' = held \ new
      /\ wide' = IF op = "edit" /\ retext THEN q.mark.wide ELSE wide
      /\ window' = IF op = "recur" THEN q.mark.window
                   ELSE IF op = "delete" \/ moved' # moved THEN NoWindow ELSE window
      /\ gone' = gone \cup {row[i].date : i \in {j \in q.dels \cap Rows : ~row[j].series}}
      /\ renamed' = (renamed \ new) \cup {i \in Ids : q.new[i].title # q.old[i].title /\ ~row[i].series}
      /\ UNCHANGED <<now, begun, texts, crossed, kind>>
Fail(r) ==
  /\ req[r].pc = "commit" /\ Stale(req[r]) /\ req' = [req EXCEPT ![r] = NoRequest]
  /\ UNCHANGED <<row, now, begun, texts, crossed, hist>>

\* The day of the next occurrence comes.
Pass ==
  /\ \E d \in {c \in Dates(Rows) : now < c /\ c <= MaxDay} :
       /\ \A c \in Dates(Rows) : c > now => d <= c
       /\ now' = d /\ held' = held \cup {i \in Rows : row[i].date = d /\ Active(i)}
  /\ crossed' = crossed \cup {{"pass", req[r].mark.op} : r \in {p \in Slots : req[p] # NoRequest}}
  /\ UNCHANGED <<row, req, begun, texts, kind, moved, byHand, wide, window, gone, renamed>>

\* The edits tried give one occurrence the day after, or new contents and maybe a new
\* title.
Next ==
  \/ \E i \in Rows : Edit(i, "this", row[i].date + 1, row[i].title, row[i].text)
  \/ \E i \in Rows, scope \in Scopes :
       \/ Cancel(i, scope)
       \/ Delete(i, scope)
       \/ \E title \in {row[i].title, texts + 1} : Edit(i, scope, row[i].date, title, texts + 1)
  \/ \E from, to \in Ends \cup RowRange : Recur(from, to)
  \/ Sync
  \/ \E r \in Slots : Commit(r) \/ Fail(r)
  \/ Pass
Spec == Init /\ [][Next]_vars

-----------------------------------------------------------------------------
\* The series has one occurrence on a day, however its range was changed,
\* unless one was moved there or two changes of the range overlapped.
OneOccurrenceEach ==
  {"recur"} \notin crossed => \A i, j \in Series \ moved : i # j => row[i].date # row[j].date

\* What took place stays on record: "past occurrences are never touched"
\* (edit_series_recurrence), unless it was cancelled or moved by hand or began
\* while the range was being changed.
PastStands == {"pass", "recur"} \notin crossed => \A i \in held \cap Rows : Active(i) \/ i \in byHand \cup moved

\* After the range was changed every day of a weekly cadence in it has a row, and
\* no later occurrence outside of it is left (edit_series_recurrence).
RangeHolds ==
  /\ window.on /\ moved = {} /\ window.rule = "weekly"
  /\ crossed \cap {{"recur"}, {"recur", "delete"}} = {}
  =>
    /\ \A d \in window.from..window.to : (d - window.anchor) % Period = 0 => d \in Dates(Series)
    /\ \A i \in Series : Active(i) => row[i].date <= window.at \/ row[i].date \in window.from..window.to

\* Two occurrences have the same title, and the same contents unless one has those of
\* the calendar.
Alike(a, b) == a.title = b.title /\ (a.text = b.text \/ 0 \in {a.text, b.text})

\* After an edit of the whole series all its occurrences, those added later too, are
\* alike, unless edits overlapped or an edit a change of the range.
Unmixed == wide /\ crossed \cap {{"edit"}, {"edit", "recur"}} = {}
ContentsAgree == Unmixed => \A i, j \in Series : Alike(row[i], row[j])

\* An entry of the calendar has one event, however often it is pulled, unless
\* the event was renamed or moved.
EntriesOnce ==
  {"sync"} \notin crossed => \A i, j \in (Rows \ Series) \ (renamed \cup moved) : i # j => row[i].date # row[j].date

\* The series is in order: the parts above, which the README explains.
SeriesIsInOrder ==
  TypeOK /\ OneOccurrenceEach /\ PastStands /\ RangeHolds /\ ContentsAgree /\ EntriesOnce

-----------------------------------------------------------------------------
(* Why the rows are in order: the inductive invariant. *)

\* What a request in progress will do with the rows it has read.
Ops == {"edit", "rename", "cancel", "delete", "recur", "sync"}
ChangeInv(q, i) ==
  LET old == q.old[i]
      new == q.new[i]
  IN  /\ old \in RowType \cup {NoRow} /\ new \in RowType \cup {NoRow}
      /\ (old = NoRow <=> new = NoRow) /\ new.series = old.series /\ new.text <= texts
      /\ new.date # old.date => q.mark.op \in {"edit", "rename"}
      /\ new.status # old.status => q.mark.op \in {"cancel", "recur"} /\ new.status = "cancelled"
      /\ new.text # old.text =>
           q.mark.op = (IF old.series THEN "edit" ELSE "rename") \/ (q.mark.op = "sync" /\ new.text = 0)
      /\ new.title # old.title =>
           new.text # old.text /\ q.mark.op = IF old.series THEN "edit" ELSE "rename"
      /\ new # old => i \in q.updates
      /\ i \in q.dels => old # NoRow /\ q.mark.op = "delete"
PlanInv(q) ==
  /\ q.pc = "commit" /\ q.mark.op \in Ops /\ q.mark.wide \in BOOLEAN
  /\ q.dels \subseteq Ids /\ \A i \in Ids : ChangeInv(q, i)
  /\ q.adds \subseteq RowType /\ IsFiniteSet(q.adds)
  /\ \A a, b \in q.adds : a.date = b.date => a = b
  /\ \A a \in q.adds : ~a.master /\ a.text <= texts /\ q.mark.op = IF a.series THEN "recur" ELSE "sync"

\* An edit of the whole series gives all its occurrences one title, and contents none of
\* them had.
WideInv(q) ==
  q.mark.op = "edit" /\ q.mark.wide =>
    \E u, t \in 0..MaxTexts : \A i \in Ids : q.old[i].series =>
      q.new[i].title = u /\ q.new[i].text = t /\ q.old[i].text # t

\* A change of the range adds the days that have no row, with the contents that all
\* have, and cancels what is later and outside.
RecurInv(q) ==
  q.mark.op = "recur" =>
    LET w == q.mark.window
        asked == w.from..w.to
    IN  /\ w.on /\ ({"pass", "recur"} \in crossed \/ w.at = now)
        /\ \A i \in Ids : q.new[i].status # q.old[i].status => q.old[i].date > w.at
        /\ \A i \in Ids : q.old[i].series /\ q.new[i].status = "active" =>
             q.old[i].date <= w.at \/ q.old[i].date \in asked
        /\ \A a \in q.adds : a.date \in asked /\ \A i \in Ids : q.old[i].series => q.old[i].date # a.date
        /\ w.rule = "weekly" =>
             \A d \in asked : (d - w.anchor) % Period = 0 =>
               \/ \E i \in Ids : q.old[i].series /\ q.old[i].date = d
               \/ \E a \in q.adds : a.date = d
        /\ Unmixed => \A a \in q.adds, i \in Series : Alike(row[i], a)
\* A pull of the calendar adds the entries that no row stands for.
SyncInv(q) ==
  q.mark.op = "sync" => \A a \in q.adds :
    a.title = 0 /\ \A i \in Ids : q.old[i] # NoRow /\ q.old[i].title = 0 => q.old[i].date # a.date

\* What became of the rows since a request has read them.
SinceInv(q) ==
  \A i \in Ids :
    /\ q.old[i] # NoRow /\ row[i] # NoRow =>
         /\ row[i].series = q.old[i].series
         /\ i \in moved \/ row[i].date = q.old[i].date
         /\ q.old[i].status = "cancelled" => row[i].status = "cancelled"
         /\ row[i].title = q.old[i].title \/ IF row[i].series THEN {q.mark.op, "edit"} \in crossed
                                              ELSE i \in renamed
    /\ q.old[i] # NoRow /\ row[i] = NoRow => {q.mark.op, "delete"} \in crossed
    /\ q.old[i] = NoRow /\ row[i] # NoRow =>
         {q.mark.op, IF row[i].series THEN "recur" ELSE "sync"} \in crossed
RequestInv(q) == PlanInv(q) /\ WideInv(q) /\ RecurInv(q) /\ SyncInv(q) /\ SinceInv(q)

\* Two requests in progress have crossed; unless an edit is among them they add the
\* same contents.
CrossInv ==
  \A r, s \in Slots : r # s /\ req[r] # NoRequest /\ req[s] # NoRequest =>
    {req[r].mark.op, req[s].mark.op} \in crossed
CloneInv ==
  Unmixed =>
    \A r, s \in Slots : \A a \in (IF req[r] = NoRequest THEN {} ELSE req[r].adds),
                           b \in (IF req[s] = NoRequest THEN {} ELSE req[s].adds) :
      a.series /\ b.series => Alike(a, b)

TypeInv ==
  /\ TypeOK /\ row \in [Ids -> RowType \cup {NoRow}] /\ DOMAIN req = Slots
  /\ now \in Nat /\ texts \in Nat /\ kind \in AllKinds /\ wide \in BOOLEAN /\ \A i \in Rows : row[i].text <= texts
HistoryInv ==
  /\ \A i \in held \cap Rows : i \in moved \/ row[i].date <= now
  /\ \A i \in Rows \ Series : i \in renamed \/ row[i].title = 0
SeriesInv ==
  /\ TypeInv /\ HistoryInv /\ CrossInv /\ CloneInv
  /\ \A r \in Slots : \A q \in {req[r]} \ {NoRequest} : RequestInv(q)
  /\ OneOccurrenceEach /\ PastStands /\ RangeHolds /\ ContentsAgree /\ EntriesOnce

-----------------------------------------------------------------------------
(* What the code does not keep. *)

\* A synced event that was deleted does not come back: delete_event "removes
\* the NC calendar entry for synced events".
DeletedStaysGone == crossed = {} => gone \cap Dates(Rows \ Series) = {}

\* An edit of the whole series gives it one place and description ("propagate CONTENT
\* changes across the series", edit_event): the next pull of the calendar gives those of
\* its entry to the occurrence that has its title and day.
ContentsAlwaysAgree == wide /\ crossed = {} => \A i, j \in Series : row[i].text = row[j].text

\* The whole range takes place: edit_series_recurrence "reconciles the set of
\* occurrences to match the cadence over the requested window".
RangeTakesPlace ==
  window.on /\ crossed = {} /\ moved = {} /\ byHand = {} /\ kind.rule = "weekly" =>
    \A d \in window.from..window.to :
      (d - window.anchor) % Period = 0 /\ d > now => \E i \in Series : row[i].date = d /\ Active(i)

\* A series keeps to the days its rule gives: "The cadence is taken from the
\* master row's recurrence_rule when present" (edit_series_recurrence).
CadenceIsTheRule ==
  kind.rule = "monthly" /\ moved = {} =>
    \A i \in Series : row[i].date - Before[MonthOf[row[i].date]] = kind.day

\* A weekly series stays weekly: when the master is deleted, and those that are left
\* lie a month apart, they are taken for a monthly one.
WeeklyStays == kind.rule = "weekly" /\ window.on => window.rule = "weekly"

\* One occurrence on a day even when changes of the range overlap.
OneOccurrenceAlways == moved = {} => \A i, j \in Series : i # j => row[i].date # row[j].date
=============================================================================
