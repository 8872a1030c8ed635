------------------------------ MODULE Rotation -------------------------------
(***************************************************************************)
(* The instructors of a recurring event (app/routes/s3_ops.py and          *)
(* app/services/instructor_rotation.py).  S3 has a plan dealt, looks at it *)
(* and applies it: the plan waits in the browser meanwhile, and the        *)
(* instructors, the members' leave and the events may change under it.     *)
(* Event n takes place on day n.                                           *)
(***************************************************************************)
EXTENDS Integers, FiniteSets, SequencesExt

CONSTANTS
  Members,       \* who may instruct
  Days,          \* the days of the occurrences, 1..n
  Pools,         \* the groups that may be ticked, as sets of members
  Leaves,        \* the leaves that may be granted: <<first, last>>
  Pages,         \* the browsers of S3
  MaxSteps       \* bound on the previews and on what happens around them

VARIABLES
  instructor,   \* events.instructor_id
  cancelled,    \* the cancelled occurrences
  now,          \* today
  leave,        \* members.leave_start and leave_end of those on leave
  page,         \* the plans shown and not yet applied
  steps,
  byHand        \* history: the instructor given by hand, until a plan replaces him

vars == <<instructor, cancelled, now, leave, page, steps, byHand>>

Nobody == "nobody"
NoLeave == <<0, -1>>
NoPage == [open |-> FALSE]

\* _on_leave_for.
Away(m, d, on) == on[m][1] <= d /\ d <= on[m][2]

\* Types; a plan is for the occurrences it was asked for.
TypeOK ==
  /\ instructor \in [Days -> Members \cup {Nobody}] /\ cancelled \subseteq Days
  /\ leave \in [Members -> Leaves \cup {NoLeave}] /\ byHand \in [Days -> Members \cup {Nobody}]
  /\ \A p \in Pages : page[p].open =>
       page[p].plan \in [page[p].days -> Members \cup {Nobody}] /\ page[p].pool \in Pools

Init ==
  /\ instructor = [d \in Days |-> Nobody] /\ cancelled = {} /\ now = 0
  /\ leave = [m \in Members |-> NoLeave] /\ page = [p \in Pages |-> NoPage]
  /\ steps = 0 /\ byHand = [d \in Days |-> Nobody]

Step == steps < MaxSteps /\ steps' = steps + 1

-----------------------------------------------------------------------------
\* series_events.
SeriesEvents(onlyUnassigned) ==
  {d \in Days \ cancelled : d > now /\ (onlyUnassigned => instructor[d] = Nobody)}
\* recent_instructors: those of the days past, oldest first.
RecentInstructors ==
  LET taught == {d \in Days : d <= now /\ instructor[d] # Nobody}
      days == SetToSortSeq(taught, <)
  IN  [k \in DOMAIN days |-> instructor[days[k]]]

\* Mutant: the shuffle deals to the recent ones as to the others.
Unbiased(pool, recent) == SetToSeqs(pool)
\* The first cycle: those who have not taught, shuffled, then the others by
\* recency_rank, which a member's oldest turn decides: the latest first.
FirstCycles(pool, recent) ==
  LET used == pool \cap ToSet(recent)
      oldest(m) == CHOOSE k \in DOMAIN recent :
                     recent[k] = m /\ \A j \in 1..(k - 1) : recent[j] # m
  IN  {fresh \o SetToSortSeq(used, LAMBDA a, b : oldest(a) > oldest(b)) : fresh \in SetToSeqs(pool \ used)}

\* Mutant: whoever is passed over for his leave loses his turn.
TurnLost(queue, k) == SubSeq(queue, k + 1, Len(queue))
\* cycle.pop(i): "members skipped for leave STAY in the queue".
TurnTaken(queue, k) == RemoveAt(queue, k)

\* Mutant: the head of the queue is dealt, on leave or not.
Head1(queue, d, on) == 1
\* The first in the queue who is not on leave, 0 for none.
Candidate(queue, d, on) == SelectInSeq(queue, LAMBDA m : ~Away(m, d, on))

\* One turn of plan_rotation; `spare` says that everyone owed a turn was away.
Turns(s, d, pool, on) ==
  UNION {LET k == Candidate(queue, d, on)
             there == {m \in pool : ~Away(m, d, on)}
         IN  IF k # 0
             THEN {[plan |-> [s.plan EXCEPT ![d] = queue[k]], queue |-> TurnTaken(queue, k), spare |-> s.spare]}
             ELSE {[plan |-> [s.plan EXCEPT ![d] = m], queue |-> queue, spare |-> TRUE] :
                     m \in IF there = {} THEN {Nobody} ELSE there}
         : queue \in IF s.queue = <<>> THEN SetToSeqs(pool) ELSE {s.queue}}

\* plan_rotation: everything the shuffles may lead to.
Plans(days, pool, recent, on) ==
  LET order == SetToSortSeq(days, <)
      none == [d \in days |-> Nobody]
      dealt[k \in 0..Len(order)] ==
        IF k = 0 THEN {[plan |-> none, queue |-> q, spare |-> FALSE] : q \in FirstCycles(pool, recent)}
        ELSE UNION {Turns(s, order[k], pool, on) : s \in dealt[k - 1]}
  IN  {[plan |-> s.plan, spare |-> s.spare] : s \in dealt[Len(order)]}

-----------------------------------------------------------------------------
\* instructor_rotation_preview, with "Continue rotation" ticked.
Preview(p, pool, onlyUnassigned) ==
  LET days == SeriesEvents(onlyUnassigned)
  IN  /\ ~page[p].open /\ days # {} /\ Step
      /\ \E s \in Plans(days, pool, RecentInstructors, leave) :
           page' = [page EXCEPT ![p] =
                     [open |-> TRUE, days |-> days, pool |-> pool, plan |-> s.plan, spare |-> s.spare,
                      recent |-> RecentInstructors, on |-> leave, only |-> onlyUnassigned,
                      fixed |-> [d \in Days |-> instructor[d]], hand |-> {}]]
      /\ UNCHANGED <<instructor, cancelled, now, leave, byHand>>

\* Mutant: the unassigned occurrences of the plan are written as well.
WithNobody(plan, d) == IF d \in DOMAIN plan THEN plan[d] ELSE Nobody
\* The pairs of the payload are written.
Assigned(plan, d) == IF d \in DOMAIN plan /\ plan[d] # Nobody THEN plan[d] ELSE instructor[d]
Planned(p, d) == d \in page[p].days /\ page[p].plan[d] # Nobody

\* instructor_rotation_apply: without a look at what has changed.
Apply(p) ==
  /\ page[p].open
  /\ instructor' = [d \in Days |-> Assigned(page[p].plan, d)]
  /\ byHand' = [d \in Days |-> IF Planned(p, d) /\ (page[p].only => d \in page[p].hand) THEN Nobody
                              ELSE byHand[d]]
  /\ page' = [page EXCEPT ![p] = NoPage]
  /\ UNCHANGED <<cancelled, now, leave, steps>>

\* edit_event: the instructor of one occurrence.
AssignByHand(d, m) ==
  /\ instructor[d] # m /\ Step
  /\ instructor' = [instructor EXCEPT ![d] = m]
  /\ byHand' = [byHand EXCEPT ![d] = m]
  /\ page' = [p \in Pages |-> IF page[p].open THEN [page[p] EXCEPT !.hand = @ \cup {d}] ELSE page[p]]
  /\ UNCHANGED <<cancelled, now, leave>>

\* Around the rotation: an occurrence is cancelled, S1 grants a leave, a day
\* passes.
Cancel(d) ==
  /\ d > now /\ d \notin cancelled /\ Step /\ cancelled' = cancelled \cup {d}
  /\ UNCHANGED <<instructor, now, leave, page, byHand>>
PlaceOnLeave(m, l) ==
  /\ leave[m] = NoLeave /\ Step /\ leave' = [leave EXCEPT ![m] = l]
  /\ UNCHANGED <<instructor, cancelled, now, page, byHand>>
Pass ==
  /\ now + 1 \in Days /\ now' = now + 1
  /\ UNCHANGED <<instructor, cancelled, leave, page, steps, byHand>>

Next ==
  \/ \E p \in Pages, pool \in Pools, only \in BOOLEAN : Preview(p, pool, only)
  \/ \E p \in Pages : Apply(p)
  \/ \E d \in Days, m \in Members \cup {Nobody} : AssignByHand(d, m)
  \/ \E d \in Days : Cancel(d)
  \/ \E m \in Members, l \in Leaves : PlaceOnLeave(m, l)
  \/ Pass
Spec == Init /\ [][Next]_vars

-----------------------------------------------------------------------------
Open == {p \in Pages : page[p].open}
\* The turns a plan gives a member before a day.
TurnsBefore(q, m, d) == Cardinality({c \in q.days : c < d /\ q.plan[c] = m})
Present(q, d) == {m \in q.pool : ~Away(m, d, q.on)}

\* A plan sends nobody to an occurrence in his leave, and leaves one without
\* an instructor only if the whole pool is away (plan_rotation).
PlansArePossible ==
  \A p \in Open : LET q == page[p] IN
    \A d \in q.days : IF Present(q, d) = {} THEN q.plan[d] = Nobody ELSE q.plan[d] \in Present(q, d)

\* "nobody teaches twice until everyone has taught once": no turn goes to a
\* member with more turns than another who is there, unless at some
\* occurrence everyone owed a turn was away.
PlansAreFair ==
  \A p \in Open : LET q == page[p] IN
    ~q.spare => \A d \in q.days : q.plan[d] # Nobody =>
      \A m \in Present(q, d) : TurnsBefore(q, q.plan[d], d) <= TurnsBefore(q, m, d)

\* "Recent history in the series is honored": the first turn of a member who
\* has taught comes after those of the members who have not, who are there.
RecentWait ==
  \A p \in Open : LET q == page[p] IN
    ~q.spare => \A d \in q.days : q.plan[d] \in ToSet(q.recent) /\ TurnsBefore(q, q.plan[d], d) = 0 =>
      \A m \in Present(q, d) \ ToSet(q.recent) : TurnsBefore(q, m, d) > 0

\* "Only fill events with no instructor": an instructor given by hand stays
\* until changed by hand or by a plan for all occurrences, unless he was
\* given while the plan was shown.
HandsStand == \A d \in Days : byHand[d] # Nobody => instructor[d] = byHand[d]

\* The rotation is in order: the parts above, which the README explains.
RotationIsFair == TypeOK /\ PlansArePossible /\ PlansAreFair /\ RecentWait /\ HandsStand

-----------------------------------------------------------------------------
(* What the code does not keep. *)

\* "Most-recent teachers should wait longest": of two who have taught and are
\* there, the one who taught last does not get the first turn (plan_rotation).
LatestWaitLongest ==
  \A p \in Open : LET q == page[p] IN
    \A d \in q.days : LET last == q.recent[Len(q.recent)] IN
      (\A c \in q.days : d <= c) /\ Len(q.recent) > 0 =>
        q.plan[d] # last \/ Present(q, d) \subseteq {last}

\* Nobody teaches twice until everyone there has taught once, whoever is away.
PlansAreAlwaysFair ==
  \A p \in Open : LET q == page[p] IN
    \A d \in q.days : q.plan[d] # Nobody =>
      \A m \in Present(q, d) : TurnsBefore(q, q.plan[d], d) <= TurnsBefore(q, m, d)

\* "re-running the tool later picks up where the rotation left off": who is
\* already down for a later occurrence is not dealt before one who is not.
AssignedAreHistory ==
  \A p \in Open : LET q == page[p] IN
    ~q.spare => \A d \in q.days : q.plan[d] # Nobody /\ TurnsBefore(q, q.plan[d], d) = 0
                                  /\ (\E c \in Days \ q.days : q.fixed[c] = q.plan[d]) =>
      \A m \in Present(q, d) : TurnsBefore(q, m, d) > 0 \/ \E c \in Days \ q.days : q.fixed[c] = m

\* "Only fill events with no instructor", whatever was done while the plan
\* was shown.
HandsAlwaysStand ==
  [][\A p \in Pages : page[p].open /\ ~page'[p].open /\ page[p].only =>
       \A d \in Days : byHand[d] # Nobody => instructor'[d] = byHand[d]]_vars

\* No cancelled or past occurrence is given an instructor by a plan.
PlansAreForTheFuture ==
  [][\A p \in Pages : page[p].open /\ ~page'[p].open =>
       \A d \in Days : instructor'[d] # instructor[d] => d > now /\ d \notin cancelled]_vars
=============================================================================
