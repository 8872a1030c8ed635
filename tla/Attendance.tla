----------------------------- MODULE Attendance -----------------------------
(***************************************************************************)
(* Who was there, and what they get for it.  Members check in at an event  *)
(* (app/routes/ops_console.py); S1 and S3 mark attendance and no-shows,    *)
(* add walk-ins, and finalize the event or open it again                   *)
(* (app/routes/events.py, app/services/attendance.py).  Finalizing copies  *)
(* check-ins onto the official record, credits TRADOC items, counts the    *)
(* member's FTXs and gives the commanders of vexillations their Mission    *)
(* Leader ribbon.  Every request is a transaction of its own: it reads,    *)
(* then writes only the attributes that differ from what it read.          *)
(***************************************************************************)
EXTENDS Integers, FiniteSets, Sequences

CONSTANTS
  Members,
  Events,
  Field,        \* the events that are FTXs; the others credit their own blocks
  Invited,      \* <<event, member>> of the RSVPs there are at first, a sequence
  MaxRows,      \* bound on the RSVPs
  MaxActive,    \* bound on the requests in progress at once
  MaxRequests,  \* bound on the requests begun
  MaxEdits      \* bound on new titles, and on changes of a commander

\* The constants' assumptions.
Sound ==
  /\ Field \subseteq Events /\ IsFiniteSet(Events) /\ Members # {}
  /\ Invited \in Seq(Events \X Members) /\ Len(Invited) <= MaxRows
  /\ MaxRows \in Nat /\ MaxActive \in Nat /\ MaxRequests \in Nat /\ MaxEdits \in Nat

VARIABLES
  rsvp,      \* the rows of event_rsvps
  event,     \* event -> finalized, its title and date, its commanders
  credits,   \* member -> the events, as titled then, that credited the item
  ftx,       \* member -> ftx_count
  ribbon,    \* member -> the Mission Leader ribbon
  grants,    \* mission_leader_grants
  cited,     \* member -> <<award_index, event>> of the ribbon's citations
  req,       \* the requests in progress
  begun, edits,
  crossed,   \* history: members with attendance changed beside an open count
  clashed,   \* history: members with a ribbon in two open transactions
  revoked    \* history: rows revoked, and not marked or checked in since

records == <<rsvp, event, credits, ftx>>
honours == <<ribbon, grants, cited>>
bounds == <<begun, edits>>
history == <<crossed, clashed, revoked>>
vars == <<records, honours, req, bounds, history>>

Rows == 1..MaxRows
Slots == 1..MaxActive
RowType == [event : Events, member : Members, checked : BOOLEAN, attended : BOOLEAN,
            noshow : BOOLEAN]
RibbonType == [held : BOOLEAN, manual : BOOLEAN, devices : 0..MaxRequests]
NoRow == [event |-> "none"]
NoRequest == [pc |-> "none"]
NoRibbon == [held |-> FALSE, manual |-> FALSE, devices |-> 0]
Handled == [pc : {"save", "revoke", "close", "mark", "count", "award", "reverse", "commit"},
            op : {"checkin", "walkin", "present", "clear", "revoke", "noshow", "finalize",
                  "reopen"},
            e : Events,
            i : 0..MaxRows,                   \* the row, 0 for one to be added
            m : Members,
            seen : {NoRow} \cup RowType,      \* the row as it was read
            stamp : 0..MaxEdits,              \* the title as it was read
            marks : SUBSET Rows,              \* check-ins to copy
            there : SUBSET Members,           \* attendees
            due : SUBSET Members,             \* to be credited, or to be decorated
            led : SUBSET Members,
            counts : [Members -> Nat],
            ribbons : [Members -> RibbonType]]

\* Types; no commit leaves a negative or an unbounded count.
TypeOK ==
  /\ \A i \in Rows : rsvp[i] = NoRow \/ rsvp[i] \in RowType
  /\ event \in [Events -> [finalized : BOOLEAN, stamp : 0..MaxEdits, led : SUBSET Members]]
  /\ credits \in [Members -> SUBSET (Events \X (0..MaxEdits))]
  /\ ftx \in [Members -> 0..MaxRows]
  /\ ribbon \in [Members -> RibbonType]
  /\ grants \subseteq Events \X Members
  /\ cited \in [Members -> SUBSET ((0..MaxRequests) \X Events)]
  /\ \A r \in Slots : req[r] = NoRequest \/ req[r] \in Handled
  /\ begun \in 0..MaxRequests /\ edits \in 0..MaxEdits

-----------------------------------------------------------------------------
Fresh(e, m) == [event |-> e, member |-> m, checked |-> FALSE, attended |-> FALSE,
                noshow |-> FALSE]

\* A commander may hold the ribbon already, given by hand.
Init ==
  /\ rsvp = [i \in Rows |-> IF i <= Len(Invited) THEN Fresh(Invited[i][1], Invited[i][2])
                            ELSE NoRow]
  /\ \E led \in [Events -> SUBSET Members] :
       event = [e \in Events |-> [finalized |-> FALSE, stamp |-> 0, led |-> led[e]]]
  /\ \E given \in SUBSET Members :
       ribbon = [m \in Members |-> [NoRibbon EXCEPT !.held = m \in given, !.manual = m \in given]]
  /\ credits = [m \in Members |-> {}] /\ ftx = [m \in Members |-> 0]
  /\ grants = {} /\ cited = [m \in Members |-> {}]
  /\ req = [r \in Slots |-> NoRequest]
  /\ begun = 0 /\ edits = 0
  /\ crossed = {} /\ clashed = {} /\ revoked = {}

RowsOf(e, m) == {i \in Rows : rsvp[i] # NoRow /\ rsvp[i].event = e /\ rsvp[i].member = m}
Present(row) == row.checked \/ row.attended
Free == {i \in Rows : rsvp[i] = NoRow}

\* The member's attended FTX rows, given those that also count.
FtxRows(m, also) ==
  {i \in Rows : /\ rsvp[i] # NoRow /\ rsvp[i].member = m /\ rsvp[i].event \in Field
                /\ rsvp[i].attended \/ i \in also}

\* Only what differs from what was read is written.
Merge(now, seen, new) ==
  [now EXCEPT !.checked = IF new.checked = seen.checked THEN @ ELSE new.checked,
              !.attended = IF new.attended = seen.attended THEN @ ELSE new.attended,
              !.noshow = IF new.noshow = seen.noshow THEN @ ELSE new.noshow]

End(r) == req' = [req EXCEPT ![r] = NoRequest]

\* A request whose transaction has read what it copies or counts, and is not over.
Counting(r) ==
  req[r].pc \in {"close", "count", "award", "commit"} /\ req[r].op # "reopen"
\* The finalization that has updated the event, whose row is locked until it ends.
Holds(r, e) == req[r].pc \in {"count", "award", "commit"} /\ req[r].op = "finalize" /\ req[r].e = e
LockedEvent(r, e) == \E s \in Slots \ {r} : Holds(s, e)
\* Rows another transaction has updated.
Locked(r, i) ==
  \E s \in Slots \ {r} :
    \/ req[s].pc = "close" /\ req[s].i = i
    \/ req[s].pc \in {"award", "commit"} /\ req[s].op = "finalize" /\ i \in req[s].marks
\* Another request counts attendance that this one changes.
Beside(r, m) ==
  \E s \in Slots \ {r} : Counting(s) /\ (req[s].op = "finalize" \/ req[s].m = m)

-----------------------------------------------------------------------------
(* Requests read. *)

Begin(op, pc, e, m, i) ==
  /\ begun < MaxRequests /\ begun' = begun + 1
  /\ \E r \in Slots :
       /\ req[r] = NoRequest /\ \A s \in Slots : s < r => req[s] # NoRequest
       /\ req' = [req EXCEPT ![r] =
            [pc |-> pc, op |-> op, e |-> e, i |-> i, m |-> m,
             seen |-> IF i = 0 THEN NoRow ELSE rsvp[i], stamp |-> event[e].stamp,
             marks |-> {}, there |-> {}, due |-> {},
             led |-> IF op = "reopen" THEN {c \in Members : <<e, c>> \in grants} ELSE {},
             counts |-> [c \in Members |-> 0],
             ribbons |-> [c \in Members |-> NoRibbon]]]

\* A look-up by member raises when it finds two rows.
TheRow(e, m) == IF RowsOf(e, m) = {} THEN 0 ELSE CHOOSE i \in Rows : RowsOf(e, m) = {i}
Unique(e, m) == Cardinality(RowsOf(e, m)) <= 1

\* qr_checkin and manual_checkin ask neither whether the event is finalized, nor
\* whether the member is a no-show.
BeginCheckIn(e, m) ==
  /\ Unique(e, m)
  /\ IF RowsOf(e, m) = {} THEN Cardinality(Free) > MaxActive - 1
     ELSE ~rsvp[TheRow(e, m)].checked
  /\ Begin("checkin", "save", e, m, TheRow(e, m))
  /\ UNCHANGED <<records, honours, edits, history>>

\* manual_uncheckin works after the finalization too.
BeginUncheckIn(e, m) ==
  /\ RowsOf(e, m) # {} /\ Unique(e, m) /\ Present(rsvp[TheRow(e, m)])
  /\ Begin("revoke", "revoke", e, m, TheRow(e, m))
  /\ UNCHANGED <<records, honours, edits, history>>

BeginToggle(i) ==
  /\ rsvp[i] # NoRow /\ ~event[rsvp[i].event].finalized
  /\ IF Present(rsvp[i])
       THEN Begin("revoke", "revoke", rsvp[i].event, rsvp[i].member, i)
       ELSE Begin("present", "save", rsvp[i].event, rsvp[i].member, i)
  /\ UNCHANGED <<records, honours, edits, history>>

BeginNoShow(i) ==
  /\ rsvp[i] # NoRow /\ ~event[rsvp[i].event].finalized
  /\ IF rsvp[i].noshow
       THEN Begin("clear", "save", rsvp[i].event, rsvp[i].member, i)
       ELSE Begin("noshow", "revoke", rsvp[i].event, rsvp[i].member, i)
  /\ UNCHANGED <<records, honours, edits, history>>

BeginWalkIn(e, m) ==
  /\ ~event[e].finalized /\ RowsOf(e, m) = {} /\ Cardinality(Free) > MaxActive - 1
  /\ Begin("walkin", "save", e, m, 0)
  /\ UNCHANGED <<records, honours, edits, history>>

BeginFinalize(e) ==
  /\ ~event[e].finalized
  /\ Begin("finalize", "mark", e, CHOOSE m \in Members : TRUE, 0)
  /\ UNCHANGED <<records, honours, edits, history>>

\* unfinalize_event also lists the grants of the event.
BeginReopen(e) ==
  /\ event[e].finalized
  /\ Begin("reopen", "reverse", e, CHOOSE m \in Members : TRUE, 0)
  /\ clashed' = IF \E s \in Slots : req[s].pc # "none" /\ req[s].op = "reopen" /\ req[s].e = e
                  THEN clashed \cup Members ELSE clashed
  /\ UNCHANGED <<records, honours, edits, crossed, revoked>>

-----------------------------------------------------------------------------
(* Attendance row by row. *)

Saved(q, row) ==
  CASE q.op = "checkin" -> [row EXCEPT !.checked = TRUE]
    [] q.op = "clear" -> [row EXCEPT !.noshow = FALSE]
    [] OTHER -> [row EXCEPT !.attended = TRUE, !.noshow = FALSE]

\* A check-in, a walk-in, a member marked present, a no-show taken back.  S1 may
\* have read the event before it was finalized.
SaveRow(r) ==
  LET q == req[r]
      i == IF q.i = 0 THEN CHOOSE j \in Free : \A k \in Free : j <= k ELSE q.i
      now == IF q.i = 0 THEN Fresh(q.e, q.m) ELSE rsvp[i]
      seen == IF q.i = 0 THEN now ELSE q.seen
  IN
  /\ q.pc = "save" /\ ~Locked(r, i)
  /\ rsvp' = [rsvp EXCEPT ![i] = Merge(now, seen, Saved(q, seen))]
  /\ revoked' = IF q.op = "clear" THEN revoked ELSE revoked \ RowsOf(q.e, q.m)
  /\ crossed' = IF Beside(r, q.m) \/ (q.op # "checkin" /\ event[q.e].finalized)
                  THEN crossed \cup {q.m} ELSE crossed
  /\ End(r)
  /\ UNCHANGED <<event, credits, ftx, honours, bounds, clashed>>

OnlyAttended(q) ==  \* Mutant: the check-in stays, for the finalization to copy back.
  [q.seen EXCEPT !.attended = FALSE, !.noshow = IF q.op = "noshow" THEN TRUE ELSE @]

\* Both flags; mark_no_show also sets its own.
Revoked(q) ==
  [q.seen EXCEPT !.checked = FALSE, !.attended = FALSE,
                 !.noshow = IF q.op = "noshow" THEN TRUE ELSE @]

\* The row is updated and the FTXs are counted in its transaction.
FlushRevoke(r) ==
  LET q == req[r]
      row == Merge(rsvp[q.i], q.seen, Revoked(q))
      others == FtxRows(q.m, {}) \ {q.i}
  IN
  /\ q.pc = "revoke" /\ ~Locked(r, q.i)
  /\ req' = [req EXCEPT ![r].pc = "close", ![r].counts[q.m] =
       Cardinality(others) + IF row.attended /\ q.e \in Field THEN 1 ELSE 0]
  /\ crossed' = IF Beside(r, q.m) THEN crossed \cup {q.m} ELSE crossed
  /\ UNCHANGED <<records, honours, bounds, clashed, revoked>>

CreditsStay(r) ==  \* Mutant: the credits are not reversed.
  LET q == req[r] IN
  /\ q.pc = "close"
  /\ \A s \in Slots \ {r} :
       req[s].pc = "commit" /\ req[s].op = "finalize" => q.m \notin req[s].there
  /\ rsvp' = [rsvp EXCEPT ![q.i] = Merge(@, q.seen, Revoked(q))]
  /\ ftx' = [ftx EXCEPT ![q.m] = q.counts[q.m]]
  /\ revoked' = IF rsvp[q.i] = q.seen THEN revoked \cup {q.i} ELSE revoked
  /\ End(r)
  /\ UNCHANGED <<event, credits, honours, bounds, crossed, clashed>>

CountStays(r) ==  \* Mutant: ftx_count is left to the next finalization.
  LET q == req[r] IN
  /\ q.pc = "close"
  /\ \A s \in Slots \ {r} :
       req[s].pc = "commit" /\ req[s].op = "finalize" => q.m \notin req[s].there
  /\ rsvp' = [rsvp EXCEPT ![q.i] = Merge(@, q.seen, Revoked(q))]
  /\ credits' = [credits EXCEPT ![q.m] = @ \ {<<q.e, q.stamp>>}]
  /\ revoked' = IF rsvp[q.i] = q.seen THEN revoked \cup {q.i} ELSE revoked
  /\ End(r)
  /\ UNCHANGED <<event, ftx, honours, bounds, crossed, clashed>>

\* revoke_rsvp_attendance and mark_no_show: the credits of this event, found by
\* the title as it was read, go; ftx_count is what was counted.
CloseRevoke(r) ==
  LET q == req[r] IN
  /\ q.pc = "close"
  /\ \A s \in Slots \ {r} :
       req[s].pc = "commit" /\ req[s].op = "finalize" => q.m \notin req[s].there
  /\ rsvp' = [rsvp EXCEPT ![q.i] = Merge(@, q.seen, Revoked(q))]
  /\ credits' = [credits EXCEPT ![q.m] = @ \ {<<q.e, q.stamp>>}]
  /\ ftx' = [ftx EXCEPT ![q.m] = q.counts[q.m]]
  /\ revoked' = IF rsvp[q.i] = q.seen THEN revoked \cup {q.i} ELSE revoked
  /\ End(r)
  /\ UNCHANGED <<event, honours, bounds, crossed, clashed>>

-----------------------------------------------------------------------------
(* Finalization. *)

\* The select of the check-ins flushes the update of the event: a second
\* finalization that read it open waits here until the first has ended.
MarkCheckIns(r) ==
  LET q == req[r] IN
  /\ q.pc = "mark" /\ ~LockedEvent(r, q.e)
  /\ req' = [req EXCEPT ![r].pc = "count", ![r].marks =
       {i \in Rows : /\ rsvp[i] # NoRow /\ rsvp[i].event = q.e
                     /\ rsvp[i].checked /\ ~rsvp[i].attended}]
  /\ crossed' = crossed \cup {m \in Members : Beside(r, m)}
  /\ UNCHANGED <<records, honours, bounds, clashed, revoked>>

\* _auto_credit_tradoc: who was there, who has the item, how many FTXs.
CountAttendees(r) ==
  LET q == req[r]
      there == {m \in Members : \E i \in RowsOf(q.e, m) : rsvp[i].attended \/ i \in q.marks}
  IN
  /\ q.pc = "count" /\ \A i \in q.marks : ~Locked(r, i)
  /\ req' = [req EXCEPT ![r].pc = "award", ![r].there = there,
                        ![r].due = {m \in there : credits[m] = {}},
                        ![r].counts = [m \in Members |-> Cardinality(FtxRows(m, q.marks))]]
  /\ crossed' = crossed \cup {m \in Members : Beside(r, m)}
  /\ UNCHANGED <<records, honours, bounds, clashed, revoked>>

\* A ribbon some other open transaction has read to change it.
Reading(r) ==
  {m \in Members : \E s \in Slots \ {r} :
     req[s].pc = "commit" /\ req[s].op \in {"finalize", "reopen"} /\ m \in req[s].led}

EveryStint(r) ==  \* Mutant: the grants of the event are not looked up.
  LET q == req[r]
      led == IF q.e \in Field THEN event[q.e].led ELSE {}
  IN
  /\ q.pc = "award"
  /\ \A s \in Slots \ {r} :
       req[s].pc = "commit" /\ req[s].op = "finalize" => q.there \cap req[s].there = {}
  /\ req' = [req EXCEPT ![r].pc = "commit", ![r].led = led, ![r].ribbons = ribbon]
  /\ clashed' = clashed \cup (led \cap Reading(r))
  /\ UNCHANGED <<records, honours, bounds, crossed, revoked>>

\* The members were updated: a finalization with an attendee in common waits.
\* _auto_award_mission_leader passes over commanders who have a grant, and reads
\* the ribbons of the others.
ReadRibbons(r) ==
  LET q == req[r]
      led == IF q.e \in Field THEN {m \in event[q.e].led : <<q.e, m>> \notin grants} ELSE {}
  IN
  /\ q.pc = "award"
  /\ \A s \in Slots \ {r} :
       req[s].pc = "commit" /\ req[s].op = "finalize" => q.there \cap req[s].there = {}
  /\ req' = [req EXCEPT ![r].pc = "commit", ![r].led = led, ![r].ribbons = ribbon]
  /\ clashed' = clashed \cup (led \cap Reading(r))
  /\ UNCHANGED <<records, honours, bounds, crossed, revoked>>

\* One device more than was read, or a first ribbon.
Decorated(seen) ==
  IF seen.held THEN [seen EXCEPT !.devices = @ + 1] ELSE [NoRibbon EXCEPT !.held = TRUE]
\* An insert of a ribbon that exists, or an update of one that is gone, raises.
Fits(q) == \A m \in q.led : ribbon[m].held = q.ribbons[m].held

\* The one commit of finalize_event.  A citation of the same index is replaced.
CommitFinalize(r) ==
  LET q == req[r] IN
  /\ q.pc = "commit" /\ q.op = "finalize" /\ Fits(q)
  /\ event' = [event EXCEPT ![q.e].finalized = TRUE]
  /\ rsvp' = [i \in Rows |-> IF i \in q.marks THEN [rsvp[i] EXCEPT !.attended = TRUE] ELSE rsvp[i]]
  /\ credits' = [m \in Members |->
       IF m \in q.due THEN credits[m] \cup {<<q.e, q.stamp>>} ELSE credits[m]]
  /\ ftx' = [m \in Members |-> IF m \in q.there THEN q.counts[m] ELSE ftx[m]]
  /\ grants' = grants \cup ({q.e} \X q.led)
  /\ ribbon' = [m \in Members |->
       IF m \in q.led THEN Decorated(q.ribbons[m]) ELSE ribbon[m]]
  /\ cited' = [m \in Members |->
       IF m \in q.led
         THEN LET index == Decorated(q.ribbons[m]).devices IN
              {c \in cited[m] : c[1] # index} \cup {<<index, q.e>>}
         ELSE cited[m]]
  /\ End(r)
  /\ UNCHANGED <<bounds, history>>

\* _reverse_mission_leader reads the ribbons, deletes the grants and counts the
\* grants that remain.
ReverseGrants(r) ==
  LET q == req[r] IN
  /\ q.pc = "reverse"
  /\ req' = [req EXCEPT ![r].pc = "commit", ![r].ribbons = ribbon,
       ![r].counts = [m \in Members |-> Cardinality({e \in Events \ {q.e} : <<e, m>> \in grants})]]
  /\ clashed' = clashed \cup (q.led \cap Reading(r))
  /\ UNCHANGED <<records, honours, bounds, crossed, revoked>>

NoFloor(seen, remaining) ==  \* Mutant: devices go below zero.
  IF remaining = 0 /\ ~seen.manual /\ seen.devices = 0 THEN NoRibbon
  ELSE [seen EXCEPT !.devices = @ - 1]

\* The ribbon that was only the automatic one of this event is deleted.
Undecorated(seen, remaining) ==
  IF remaining = 0 /\ ~seen.manual /\ seen.devices = 0 THEN NoRibbon
  ELSE [seen EXCEPT !.devices = IF @ = 0 THEN 0 ELSE @ - 1]

\* unfinalize_event.  The citation that goes is the last one of the ribbon,
\* whichever event it is of.  Credits and counts stay.
CommitReopen(r) ==
  LET q == req[r]
      undone == {m \in q.led : q.ribbons[m].held}
      new == [m \in undone |-> Undecorated(q.ribbons[m], q.counts[m])]
  IN
  /\ q.pc = "commit" /\ q.op = "reopen" /\ ~LockedEvent(r, q.e)
  /\ \A m \in undone : ribbon[m].held \/ ~new[m].held
  /\ event' = [event EXCEPT ![q.e].finalized = FALSE]
  /\ grants' = grants \ ({q.e} \X q.led)
  /\ ribbon' = [m \in Members |-> IF m \in undone THEN new[m] ELSE ribbon[m]]
  /\ cited' = [m \in Members |->
       IF m \notin undone THEN cited[m]
       ELSE IF ~new[m].held THEN {}
       ELSE {c \in cited[m] : c[1] # q.ribbons[m].devices}]
  /\ End(r)
  /\ UNCHANGED <<rsvp, credits, ftx, bounds, history>>

\* A constraint or a row that is gone: the whole transaction is rolled back.
Rollback(r) ==
  LET q == req[r] IN
  /\ q.pc = "commit"
  /\ \/ q.op = "finalize" /\ ~Fits(q)
     \/ /\ q.op = "reopen"
        /\ \E m \in q.led :
             /\ q.ribbons[m].held /\ ~ribbon[m].held
             /\ Undecorated(q.ribbons[m], q.counts[m]).held
  /\ End(r)
  /\ UNCHANGED <<records, honours, bounds, history>>

-----------------------------------------------------------------------------
(* What others do to the event. *)

\* edit_event: a new title or date.
Retitle(e) ==
  /\ edits < MaxEdits /\ edits' = edits + 1
  /\ \A r \in Slots : ~Holds(r, e)
  /\ event' = [event EXCEPT ![e].stamp = @ + 1]
  /\ UNCHANGED <<rsvp, credits, ftx, honours, req, begun, history>>

\* set_vexillation_commander asks nothing of the event.
SetCommander(e, led) ==
  /\ edits < MaxEdits /\ edits' = edits + 1
  /\ led # event[e].led
  /\ event' = [event EXCEPT ![e].led = led]
  /\ UNCHANGED <<rsvp, credits, ftx, honours, req, begun, history>>

-----------------------------------------------------------------------------
Next ==
  \/ \E e \in Events :
       \/ \E m \in Members : BeginCheckIn(e, m) \/ BeginUncheckIn(e, m) \/ BeginWalkIn(e, m)
       \/ BeginFinalize(e) \/ BeginReopen(e) \/ Retitle(e)
       \/ \E led \in SUBSET Members : SetCommander(e, led)
  \/ \E i \in Rows : BeginToggle(i) \/ BeginNoShow(i)
  \/ \E r \in Slots :
       \/ SaveRow(r) \/ FlushRevoke(r) \/ CloseRevoke(r)
       \/ MarkCheckIns(r) \/ CountAttendees(r) \/ ReadRibbons(r) \/ CommitFinalize(r)
       \/ ReverseGrants(r) \/ CommitReopen(r) \/ Rollback(r)

Spec == Init /\ [][Next]_vars

-----------------------------------------------------------------------------
(* Properties. *)

\* Nobody keeps a credit from an event they are not recorded at, however often it
\* was finalized and reopened, unless its title was edited, or the attendance
\* changed beside an open finalization.
CreditEarned ==
  \A m \in Members \ crossed, e \in Events :
    event[e].stamp = 0 /\ <<e, 0>> \in credits[m]
      => \E i \in RowsOf(e, m) : rsvp[i].attended

\* ftx_count agrees with the record it is derived from when the FTXs a member was
\* at are finalized, unless two requests counted at once, or S1 saved attendance
\* from a page read before the finalization.
CountsAttended ==
  \A m \in Members \ crossed :
    (\A i \in FtxRows(m, {}) : event[rsvp[i].event].finalized)
      => ftx[m] = Cardinality(FtxRows(m, {}))

\* A ribbon carries one award for each event led: finalizing twice at once, again
\* after reopening, or beside the finalization of another event the commander was
\* at adds no award and loses none.
AwardsMatchGrants ==
  \A m \in Members \ clashed :
    LET led == Cardinality({e \in Events : <<e, m>> \in grants})
        own == IF ribbon[m].manual THEN 1 ELSE 0
    IN (IF ribbon[m].held THEN ribbon[m].devices + 1 ELSE 0) = led + own

\* Who was taken off the record is not put back by a finalization.
RevokedStaysOut == \A i \in revoked : rsvp[i].member \notin crossed => ~rsvp[i].attended

\* The record of attendance agrees with itself: credits are earned, ftx_count is
\* what the rows say, and who was taken off the record stays off.
RecordsAgree == TypeOK /\ CreditEarned /\ CountsAttended /\ RevokedStaysOut

-----------------------------------------------------------------------------
(* The inductive invariant. *)

TypeInv ==
  /\ rsvp \in [Rows -> {NoRow} \cup RowType]
  /\ event \in [Events -> [finalized : BOOLEAN, stamp : 0..MaxEdits, led : SUBSET Members]]
  /\ credits \in [Members -> SUBSET (Events \X (0..MaxEdits))]
  /\ ftx \in [Members -> 0..MaxRows]
  /\ ribbon \in [Members -> RibbonType]
  /\ grants \subseteq Events \X Members
  /\ cited \in [Members -> SUBSET ((0..MaxRequests) \X Events)]
  /\ req \in [Slots -> {NoRequest} \cup Handled]
  /\ begun \in 0..MaxRequests /\ edits \in 0..MaxEdits
  /\ crossed \subseteq Members /\ clashed \subseteq Members /\ revoked \subseteq Rows

Pending == {r \in Slots : req[r] # NoRequest}
Adding == {r \in Slots : req[r].pc = "save" /\ req[r].i = 0}

\* Each request adds one device at most, and there is room for every row to come.
BoundInv ==
  /\ Cardinality(Adding) <= Cardinality(Free)
  /\ \A m \in Members :
       /\ ribbon[m].devices + Cardinality(Pending) <= begun
       /\ \A r \in Pending : req[r].ribbons[m].devices + Cardinality(Pending) <= begun

OpsAt(pc) ==
  CASE pc = "save" -> {"checkin", "walkin", "present", "clear"}
    [] pc \in {"revoke", "close"} -> {"revoke", "noshow"}
    [] pc = "reverse" -> {"reopen"}
    [] pc = "commit" -> {"finalize", "reopen"}
    [] OTHER -> {"finalize"}

\* What a request is about; rows stay the member's, at the event.
RequestInv(q) ==
  /\ q.op \in OpsAt(q.pc)
  /\ q.pc \in {"revoke", "close"} => q.i # 0
  /\ q.i # 0 => /\ q.seen \in RowType
                /\ rsvp[q.i] # NoRow /\ rsvp[q.i].event = q.e /\ rsvp[q.i].member = q.m
  /\ q.stamp <= event[q.e].stamp
  /\ q.due \subseteq q.there
  /\ q.op # "reopen" => \A m \in Members : q.counts[m] <= MaxRows
  /\ \A i \in q.marks : rsvp[i] # NoRow /\ rsvp[i].event = q.e

\* Two requests that count one member's attendance at once.
Counts(r, m) == Counting(r) /\ (req[r].op = "finalize" \/ req[r].m = m)
CrossInv ==
  \A r, s \in Slots, m \in Members : r # s /\ Counts(r, m) /\ Counts(s, m) => m \in crossed

\* The FTXs of a member with the row as a revocation leaves it.
LeftAfter(q) ==
  Cardinality(FtxRows(q.m, {}) \ {q.i})
    + IF Merge(rsvp[q.i], q.seen, Revoked(q)).attended /\ q.e \in Field THEN 1 ELSE 0

IsThere(q, m) == \E i \in RowsOf(q.e, m) : rsvp[i].attended \/ i \in q.marks

\* What a request has counted is still so.
CountInv(q) ==
  /\ q.pc = "close" /\ q.m \notin crossed => q.counts[q.m] = LeftAfter(q)
  /\ q.pc \in {"award", "commit"} /\ q.op = "finalize" =>
       \A m \in Members \ crossed :
         (m \in q.there <=> IsThere(q, m)) /\ q.counts[m] = Cardinality(FtxRows(m, q.marks))
  /\ q.pc \in {"count", "award", "commit"} /\ q.op = "finalize" =>
       \A i \in q.marks \cap revoked : rsvp[i].member \in crossed

RevokedInv ==
  \A i \in revoked :
    rsvp[i] # NoRow /\ (rsvp[i].member \notin crossed => ~rsvp[i].attended /\ ~rsvp[i].checked)

RecordInv ==
  /\ TypeInv /\ BoundInv /\ CrossInv /\ RevokedInv
  /\ \A r \in Pending : RequestInv(req[r]) /\ CountInv(req[r])
  /\ \A e \in Events : event[e].stamp <= edits
  /\ CreditEarned /\ CountsAttended

Reopens(r, e) == req[r].pc # "none" /\ req[r].op = "reopen" /\ req[r].e = e

\* One finalization of an event holds it; two that reopen it clash.
EventInv ==
  \A r, s \in Slots, e \in Events :
    /\ Holds(r, e) /\ Holds(s, e) => r = s
    /\ r # s /\ Reopens(r, e) /\ Reopens(s, e) => Members \subseteq clashed

OtherGrants(q, m) == {e \in Events \ {q.e} : <<e, m>> \in grants}

\* Who decorates or undoes has the ribbon as it is, and nobody beside it.
RibbonInv ==
  \A r \in Pending : \A m \in req[r].led \ clashed :
    /\ req[r].op = "reopen" => <<req[r].e, m>> \in grants
    /\ req[r].pc = "commit" =>
         /\ req[r].op = "finalize" => <<req[r].e, m>> \notin grants
         /\ req[r].ribbons[m] = ribbon[m]
         /\ req[r].op = "reopen" => req[r].counts[m] = Cardinality(OtherGrants(req[r], m))
         /\ \A s \in Pending \ {r} : req[s].pc = "commit" => m \notin req[s].led

HonourInv == EventInv /\ RibbonInv /\ AwardsMatchGrants

AttendanceInv == RecordInv /\ HonourInv

-----------------------------------------------------------------------------
(* What the program does not keep. *)

\* A member has one row at an event: violated by two scans of the QR code.
OneRowEach == \A e \in Events, m \in Members : Unique(e, m)

\* A no-show is not present: violated by a check-in, which leaves the flag.
NoShowsAreAbsent == \A i \in Rows : rsvp[i] # NoRow /\ rsvp[i].noshow => ~Present(rsvp[i])

\* Attendance is locked once the event is finalized, except for undone check-ins:
\* violated by a page that was read before.
AttendanceLocked ==
  [][\A i \in Rows :
       rsvp[i] # NoRow /\ event[rsvp[i].event].finalized /\ ~rsvp[i].attended
         => ~rsvp'[i].attended]_vars

\* Attendees of a finalized event have the item it credits: violated when the
\* event that credited it first takes its credit back.
AttendeesCredited ==
  \A e \in Events, m \in Members :
    event[e].finalized /\ (\E i \in RowsOf(e, m) : rsvp[i].attended) /\ m \notin crossed
      => credits[m] # {}

\* Reopening an event takes back the citation it wrote: violated when another
\* event was finalized since.
CitationsFollowGrants ==
  \A m \in Members \ clashed : {c[2] : c \in cited[m]} = {e \in Events : <<e, m>> \in grants}

\* Who is taken off the record loses the credit: violated by a new title.
RevokedLoseCredit ==
  \A e \in Events, m \in Members \ crossed :
    (\E s \in 0..MaxEdits : <<e, s>> \in credits[m])
      => \E i \in RowsOf(e, m) : rsvp[i].attended
=============================================================================
