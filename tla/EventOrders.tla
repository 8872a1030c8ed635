---------------------------- MODULE EventOrders ----------------------------
(***************************************************************************)
(* Who is coming, and who is told: one event of the calendar, the answers  *)
(* of members to it, and the orders issued for it (app/routes/events.py,   *)
(* and the override of app/routes/ops_console.py).  A warning order opens  *)
(* the RSVP and is mailed to everyone; the operations order and the        *)
(* numbered FRAGOs are mailed to those who attend, by a background task    *)
(* after the response; an after-action review closes it.  A load of the    *)
(* event's page tidies the roster.  Every request is one transaction: what *)
(* it decides rests on what it read, and only attributes that differ from  *)
(* what was read are written.                                              *)
(***************************************************************************)
EXTENDS Integers

CONSTANTS
  Members,
  MaxCopies,    \* bound on the rows of one member: there should be one
  MaxActive,    \* bound on the requests in progress at once
  MaxRequests,  \* bound on the requests begun
  MaxEdits,     \* bound on edits of the event, finalizations, separations
  MaxFaults     \* bound on crashes

VARIABLES
  event,      \* the row of events
  rsvp,       \* event_rsvps: <<member, copy>> -> its status, "none" if there is no row
  serving,    \* the members who are active or recruits
  fragos,     \* the numbers of event_fragos
  sheets,     \* the submissions whose items the after-action review shows
  req,        \* the requests in progress
  outbox,     \* OPORD mails of background tasks that have not run
  begun, edits, faults,
  recent,     \* members with a notice titled like the cancellation, less than a minute old
  ordered,    \* history: members the OPORD was mailed to
  unmailed,   \* history: members whose mail of the OPORD was lost
  aware,      \* history: members who know that the event is cancelled
  unnoticed,  \* history: members whose notice of the cancellation was dropped or lost
  answer,     \* history: member -> the answer given last, and by whom
  crossed,    \* history: members whose answer overlapped a request about it
  sent        \* history: how often each order went out

mail == <<req, outbox>>
bounds == <<begun, edits, faults>>
notices == <<recent, ordered, unmailed, aware, unnoticed>>
history == <<notices, answer, crossed, sent>>
vars == <<event, rsvp, serving, fragos, sheets, mail, bounds, history>>

Rows == Members \X (1..MaxCopies)
Slots == 1..MaxActive
Numbers == 1..MaxRequests
Answers == {"attending", "declined"}
Statuses == {"none", "pending"} \cup Answers
EventType == [status : {"active", "cancelled"}, open : BOOLEAN, scheduled : BOOLEAN,
              warno : BOOLEAN, opord : BOOLEAN, closed : BOOLEAN, aar : BOOLEAN]
NoRow == << >>
NoRequest == [pc |-> "none"]
Request == [pc : {"save", "claim", "flush", "mail", "commit", "cancel", "notify", "items"},
            op : {"answer", "override", "maintain", "warno", "opord", "frago", "cancel",
                  "publish", "review"},
            n : Numbers,              \* which request it is
            row : Rows \cup {NoRow},  \* the row found, or to be added
            seen : Statuses,          \* its status as it was read
            says : Statuses,          \* the answer to be written
            read : [status : {"active", "cancelled"}, open : BOOLEAN, opord : BOOLEAN],
                                      \* of the event
            add : SUBSET Members,     \* members to be given a pending row
            prune : SUBSET Rows,
            to : SUBSET Members,      \* to be mailed
            number : 0..MaxRequests,  \* of the FRAGO
            gone : SUBSET Numbers]    \* submissions whose items were deleted

\* Types; the FRAGOs are numbered 1, 2, 3, ...
TypeOK ==
  /\ event \in EventType
  /\ rsvp \in [Rows -> Statuses]
  /\ serving \subseteq Members /\ sheets \subseteq Numbers
  /\ \E last \in 0..MaxRequests : fragos = 1..last
  /\ \A r \in Slots : req[r] = NoRequest \/ req[r] \in Request
  /\ outbox \subseteq SUBSET Members /\ recent \subseteq Members
  /\ begun \in 0..MaxRequests /\ edits \in 0..MaxEdits /\ faults \in 0..MaxFaults

-----------------------------------------------------------------------------
\* An event created with its RSVP open has a pending row for everyone.
Init ==
  /\ \E open \in BOOLEAN :
       /\ event = [status |-> "active", open |-> open, scheduled |-> FALSE, warno |-> FALSE,
                   opord |-> FALSE, closed |-> FALSE, aar |-> FALSE]
       /\ rsvp = [i \in Rows |-> IF open /\ i[2] = 1 THEN "pending" ELSE "none"]
  /\ serving = Members /\ fragos = {} /\ sheets = {}
  /\ req = [r \in Slots |-> NoRequest] /\ outbox = {}
  /\ begun = 0 /\ edits = 0 /\ faults = 0
  /\ recent = {} /\ ordered = {} /\ unmailed = {} /\ aware = {} /\ unnoticed = {} /\ crossed = {}
  /\ answer = [m \in Members |-> [says |-> "none", own |-> FALSE]]
  /\ sent = [warno |-> 0, opord |-> 0, aar |-> 0, frago |-> [n \in Numbers |-> 0], refused |-> FALSE]

RowsOf(m) == {i \in Rows : i[1] = m /\ rsvp[i] # "none"}
Having(statuses) == {i[1] : i \in {j \in Rows : rsvp[j] \in statuses}}
Attending == Having({"attending"})
Free(m) == {i \in Rows : i[1] = m /\ rsvp[i] = "none"}
NextFree(m) == CHOOSE i \in Free(m) : TRUE
\* A look-up by member raises when it finds two rows.
Unique(m) == \A i, j \in RowsOf(m) : i = j
TheRow(m) == IF RowsOf(m) = {} THEN NextFree(m) ELSE CHOOSE i \in RowsOf(m) : TRUE

\* Rows of members the request answers for, adds or prunes.
Concerns(r) ==
  IF req[r].pc = "none" THEN {}
  ELSE CASE req[r].op \in {"answer", "override"} -> {req[r].row[1]}
         [] req[r].op = "maintain" -> req[r].add \cup {i[1] : i \in req[r].prune}
         [] req[r].op = "warno" -> IF req[r].pc = "claim" THEN {} ELSE req[r].add
         [] req[r].op = "opord" -> IF req[r].pc = "flush" THEN {} ELSE Members
         [] OTHER -> {}
Answering(r) == IF req[r].pc = "save" /\ req[r].op \in {"answer", "override"}
                THEN {req[r].row[1]} ELSE {}

\* The members whose answers overlap the request, now that it commits.
Overlapped(r) ==
  UNION {IF Answering(r) # {} THEN Answering(r) \cap Concerns(s)
         ELSE IF req[r].op = "cancel" THEN Answering(s)
         ELSE Answering(s) \cap Concerns(r) : s \in Slots \ {r}}

\* Requests that have updated or locked the event's row; it is theirs until they end.
Holds(r) ==
  req[r].pc \in {"mail", "commit"} \/ (req[r].pc = "flush" /\ req[r].op = "frago")
Unlocked(r) == \A s \in Slots \ {r} : ~Holds(s)
\* A row that refers to the event is not inserted while that is locked FOR UPDATE.
Insertable(r) == \A s \in Slots \ {r} : ~(Holds(s) /\ req[s].op = "frago")

At(r, pc) == req' = [req EXCEPT ![r] = [@ EXCEPT !.pc = pc]]
End(r) == req' = [req EXCEPT ![r] = NoRequest]
WithPending(rows, ms) == [i \in Rows |-> IF i[1] \in ms /\ Free(i[1]) # {} /\ i = NextFree(i[1])
                                         THEN "pending" ELSE rows[i]]

\* Mutant: the cancellation tells everyone before it commits, as a deletion does.
NotifyFirst == <<"notify", "cancel">>
\* cancel_event commits before it tells anyone.
CancelOrder == <<"cancel", "notify">>

\* Mutant: who declined before is not caught up.
CaughtUpOnce(q) == q.says = "attending" /\ q.seen \in {"none", "pending"} /\ q.read.opord
\* Newly attending, with the OPORD out: the member is mailed it.
CaughtUp(q) == q.says = "attending" /\ q.seen # "attending" /\ q.read.opord

-----------------------------------------------------------------------------
(* Requests read. *)

Begin(pc, op, found) ==
  /\ begun < MaxRequests /\ begun' = begun + 1
  /\ \E r \in Slots :
       /\ req[r] = NoRequest /\ \A s \in Slots : s < r => req[s] # NoRequest
       /\ req' = [req EXCEPT ![r] =
            [pc |-> pc, op |-> op, n |-> begun + 1,
             row |-> found.row, seen |-> found.seen, says |-> found.says,
             read |-> [status |-> event.status, open |-> event.open, opord |-> event.opord],
             add |-> found.add, prune |-> found.prune,
             to |-> {}, number |-> found.number, gone |-> {}]]

\* What a request finds about the roster and the FRAGOs.
Found(add, prune, number) ==
  [row |-> NoRow, seen |-> "none", says |-> "none", add |-> add, prune |-> prune, number |-> number]
Plain == Found({}, {}, 0)
Answer(row, says) ==
  [row |-> row, seen |-> rsvp[row], says |-> says, add |-> {}, prune |-> {}, number |-> 0]
OnlyBegins ==
  UNCHANGED <<event, rsvp, serving, fragos, sheets, outbox, edits, faults, history>>

\* submit_rsvp: a member answers, while the RSVP is open.
BeginAnswer(m, says) ==
  /\ event.open /\ Unique(m)
  /\ Begin("save", "answer", Answer(TheRow(m), says))
  /\ OnlyBegins

\* override_rsvp: S3 answers for a member, open or not.
BeginOverride(m, says) ==
  /\ Unique(m)
  /\ Begin("save", "override", Answer(TheRow(m), says))
  /\ OnlyBegins

\* Mutant: the rows of members who left go, whatever they say.
EveryLeaver == {i \in Rows : rsvp[i] # "none" /\ i[1] \notin serving}
\* _maintain_event_roster: who has no row, and which rows nobody needs.
Missing == {m \in serving : RowsOf(m) = {}}
Needless == {i \in Rows : rsvp[i] = "pending" /\ i[1] \notin serving}
\* Of the rows of one member it looks at one, whichever.
Pruned == {rows \in SUBSET Needless :
             /\ \A i, j \in rows : i[1] = j[1] => i = j
             /\ \A i \in Needless : RowsOf(i[1]) \subseteq Needless => \E j \in rows : j[1] = i[1]}
BeginMaintain ==
  /\ event.open /\ ~event.closed
  /\ \E prune \in Pruned :
       /\ Missing # {} \/ prune # {}
       /\ Begin("save", "maintain", Found(Missing, prune, 0))
  /\ OnlyBegins

\* issue_warno reads the event and does not look at its status; warno_banner, which
\* every page loads, finds the events whose order is due.
BeginWarno ==
  /\ Begin("claim", "warno", Plain)
  /\ OnlyBegins
BeginBanner ==
  /\ event.scheduled /\ ~event.warno
  /\ BeginWarno

\* issue_opord refuses a second order.
BeginOpord ==
  /\ ~event.opord
  /\ Begin("flush", "opord", Plain)
  /\ OnlyBegins

\* Mutant: the numbers skip.
EveryOther == {n \in Numbers : n - 2 \in fragos \cup {-1} /\ \A k \in fragos : k < n - 1}
\* issue_fragord locks the event, and takes the number after the largest, or 1.
NextNumber == {n \in Numbers : n - 1 \in fragos \cup {0} /\ \A k \in fragos : k < n}
\* Mutant: the event is not locked while the number is taken.
FragoUnlocked ==
  /\ \E n \in NextNumber : Begin("flush", "frago", Found({}, {}, n))
  /\ OnlyBegins
BeginFrago ==
  /\ \A s \in Slots : ~Holds(s)
  /\ \E n \in NextNumber : Begin("flush", "frago", Found({}, {}, n))
  /\ OnlyBegins

\* cancel_event
BeginCancel ==
  /\ Begin(CancelOrder[1], "cancel", Plain)
  /\ OnlyBegins

\* save_aar: publishing a review for the second time only saves it.
BeginPublish ==
  /\ event.closed
  /\ Begin("save", IF event.aar THEN "review" ELSE "publish", Plain)
  /\ OnlyBegins
BeginReview ==
  /\ event.closed
  /\ Begin("save", "review", Plain)
  /\ OnlyBegins

-----------------------------------------------------------------------------
(* Requests write. *)

\* An answer is written if it differs from the one read; a row that is gone since
\* fails the request.
SaveAnswer(r) ==
  LET q == req[r]
      m == q.row[1]
      row == IF q.seen = "none" THEN NextFree(m) ELSE q.row
      own == q.op = "answer"
  IN  /\ q.pc = "save" /\ q.op \in {"answer", "override"}
      /\ IF q.seen = "none" THEN Insertable(r) /\ Free(m) # {} ELSE TRUE
      /\ IF q.seen # "none" /\ rsvp[row] = "none"
         THEN UNCHANGED <<rsvp, outbox, answer, crossed, aware>>
         ELSE /\ rsvp' = [rsvp EXCEPT ![row] = IF q.says = q.seen THEN @ ELSE q.says]
              /\ outbox' = IF own /\ CaughtUp(q) THEN outbox \cup {{m}} ELSE outbox
              /\ answer' = [answer EXCEPT ![m] =
                   [says |-> q.says, own |-> own /\ (q.says # q.seen \/ answer[m].own)]]
              /\ crossed' = crossed \cup Overlapped(r)
              /\ aware' = IF own /\ q.read.status = "cancelled" THEN aware \cup {m} ELSE aware
      /\ End(r)
      /\ UNCHANGED <<event, serving, fragos, sheets, bounds, recent, ordered, unmailed, unnoticed, sent>>

SaveRoster(r) ==
  LET q == req[r]
  IN  /\ q.pc = "save" /\ q.op = "maintain"
      /\ q.add # {} => Insertable(r)
      /\ \A m \in q.add : Free(m) # {}
      /\ rsvp' = [i \in Rows |-> IF i \in q.prune THEN "none" ELSE WithPending(rsvp, q.add)[i]]
      /\ crossed' = crossed \cup Overlapped(r)
      /\ End(r)
      /\ UNCHANGED <<event, serving, fragos, sheets, outbox, bounds, notices, answer, sent>>

\* Mutant: the claim does not look at the rows it updated.
ClaimAnyway(r) ==
  /\ req[r].pc = "claim" /\ Unlocked(r)
  /\ req' = [req EXCEPT ![r] = [@ EXCEPT !.pc = "mail", !.add = Missing]]
  /\ UNCHANGED <<event, rsvp, serving, fragos, sheets, outbox, bounds, history>>
\* _activate_warno: the order is claimed by whoever sets warno_issued_at first.
Claim(r) ==
  /\ req[r].pc = "claim" /\ Unlocked(r)
  /\ IF event.warno
     THEN End(r)
     ELSE req' = [req EXCEPT ![r] = [@ EXCEPT !.pc = "mail", !.add = Missing]]
  /\ UNCHANGED <<event, rsvp, serving, fragos, sheets, outbox, bounds, history>>

\* The order is mailed before it is committed.
MailWarno(r) ==
  /\ req[r].pc = "mail"
  /\ At(r, "commit")
  /\ sent' = [sent EXCEPT !.warno = @ + 1]
  /\ UNCHANGED <<event, rsvp, serving, fragos, sheets, outbox, bounds,
                 notices, answer, crossed>>

CommitWarno(r) ==
  LET q == req[r]
  IN  /\ q.pc = "commit" /\ q.op = "warno"
      /\ \A m \in q.add : Free(m) # {}
      /\ event' = [event EXCEPT !.warno = TRUE, !.open = IF q.read.open THEN @ ELSE TRUE]
      /\ rsvp' = WithPending(rsvp, q.add)
      /\ crossed' = crossed \cup Overlapped(r)
      /\ End(r)
      /\ UNCHANGED <<serving, fragos, sheets, outbox, bounds, notices, answer, sent>>

\* The query for the attendees flushes the event.
FlushOpord(r) ==
  /\ req[r].pc = "flush" /\ req[r].op = "opord" /\ Unlocked(r)
  /\ req' = [req EXCEPT ![r] = [@ EXCEPT !.pc = "commit", !.to = Attending]]
  /\ UNCHANGED <<event, rsvp, serving, fragos, sheets, outbox, bounds, history>>

CommitOpord(r) ==
  /\ req[r].pc = "commit" /\ req[r].op = "opord"
  /\ event' = [event EXCEPT !.opord = TRUE]
  /\ outbox' = outbox \cup {req[r].to}
  /\ sent' = [sent EXCEPT !.opord = @ + 1]
  /\ crossed' = crossed \cup Overlapped(r)
  /\ End(r)
  /\ UNCHANGED <<rsvp, serving, fragos, sheets, bounds, notices, answer>>

\* A number already taken fails the flush; otherwise the order is posted.
FlushFrago(r) ==
  LET n == req[r].number
  IN  /\ req[r].pc = "flush" /\ req[r].op = "frago"
      /\ \A s \in Slots \ {r} : req[s].pc = "commit" => req[s].number # n
      /\ IF n \in fragos
         THEN End(r) /\ sent' = [sent EXCEPT !.refused = TRUE]
         ELSE At(r, "commit") /\ sent' = [sent EXCEPT !.frago[n] = @ + 1]
      /\ UNCHANGED <<event, rsvp, serving, fragos, sheets, outbox, bounds,
                     notices, answer, crossed>>

CommitFrago(r) ==
  /\ req[r].pc = "commit" /\ req[r].op = "frago"
  /\ fragos' = fragos \cup {req[r].number}
  /\ End(r)
  /\ UNCHANGED <<event, rsvp, serving, sheets, outbox, bounds, history>>

CancelNext(r, pc) == IF pc = CancelOrder[1] THEN At(r, CancelOrder[2]) ELSE End(r)
SaveCancel(r) ==
  /\ req[r].pc = "cancel" /\ Unlocked(r)
  /\ event' = [event EXCEPT !.status = "cancelled", !.open = IF req[r].read.open THEN FALSE ELSE @]
  /\ crossed' = crossed \cup Overlapped(r)
  /\ CancelNext(r, "cancel")
  /\ UNCHANGED <<rsvp, serving, fragos, sheets, outbox, bounds, notices, answer, sent>>

\* create_notification drops a notice to a member who had one of the same title within
\* the last minute; that of a cancellation names the event without its date.
Noticed(told) ==
  /\ aware' = aware \cup told
  /\ unnoticed' = unnoticed \cup (Having({"pending", "attending"}) \ told)
  /\ recent' = recent \cup told
  /\ UNCHANGED <<event, rsvp, serving, fragos, sheets, outbox, bounds, ordered, unmailed,
                 answer, crossed, sent>>
\* _notify_affected: everyone who has not declined.
NotifyAffected(r) ==
  /\ req[r].pc = "notify"
  /\ Noticed(Having({"pending", "attending"}) \ recent)
  /\ CancelNext(r, "notify")
\* Every notice commits on its own: a failure loses those that are left.
NotifyFails(r) ==
  /\ req[r].pc = "notify"
  /\ \E told \in SUBSET (Having({"pending", "attending"}) \ recent) : Noticed(told)
  /\ End(r)

\* save_aar deletes the items there are, and adds those of its form.
DeleteItems(r) ==
  /\ req[r].pc = "save" /\ req[r].op \in {"publish", "review"}
  /\ req' = [req EXCEPT ![r] = [@ EXCEPT !.pc = "items", !.gone = sheets]]
  /\ UNCHANGED <<event, rsvp, serving, fragos, sheets, outbox, bounds, history>>
CommitItems(r) ==
  /\ req[r].pc = "items" /\ Unlocked(r)
  /\ sheets' = (sheets \ req[r].gone) \cup {req[r].n}
  /\ IF req[r].op = "publish"
     THEN event' = [event EXCEPT !.aar = TRUE] /\ sent' = [sent EXCEPT !.aar = @ + 1]
     ELSE UNCHANGED <<event, sent>>
  /\ End(r)
  /\ UNCHANGED <<rsvp, serving, fragos, outbox, bounds, notices, answer, crossed>>

-----------------------------------------------------------------------------
(* The rest of the world. *)

\* A background task mails the order; what a server refuses is counted and logged, and
\* who has no address gets nothing.
Deliver(to) ==
  /\ to \in outbox
  /\ outbox' = outbox \ {to}
  /\ \E failed \in SUBSET to :
       ordered' = ordered \cup (to \ failed) /\ unmailed' = unmailed \cup failed
  /\ UNCHANGED <<event, rsvp, serving, fragos, sheets, req, bounds, recent, aware, unnoticed,
                 answer, crossed, sent>>

\* Another event of the same title is cancelled, another occurrence say; a minute passes.
OnlyRecent == UNCHANGED <<event, rsvp, serving, fragos, sheets, mail, bounds, ordered, unmailed,
                          aware, unnoticed, answer, crossed, sent>>
CancelOther ==
  /\ \E told \in SUBSET (Members \ recent) \ {{}} : recent' = recent \cup told
  /\ OnlyRecent
Minute ==
  /\ \E left \in SUBSET recent \ {recent} : recent' = left
  /\ OnlyRecent

Edited ==
  /\ edits < MaxEdits /\ edits' = edits + 1
  /\ UNCHANGED <<fragos, sheets, rsvp, mail, begun, faults, history>>
\* edit_event, schedule_warno, finalize_event, and members who leave or come back.
Edit == Edited /\ Unlocked(0) /\ event' = [event EXCEPT !.open = ~@] /\ UNCHANGED serving
Schedule == Edited /\ Unlocked(0) /\ event' = [event EXCEPT !.scheduled = TRUE] /\ UNCHANGED serving
Close == Edited /\ Unlocked(0) /\ event' = [event EXCEPT !.closed = TRUE] /\ UNCHANGED serving
Enlist(m) ==
  /\ Edited
  /\ serving' = IF m \in serving THEN serving \ {m} ELSE serving \cup {m}
  /\ UNCHANGED event

Crash ==
  /\ faults < MaxFaults /\ faults' = faults + 1
  /\ outbox # {} \/ \E r \in Slots : req[r] # NoRequest
  /\ req' = [r \in Slots |-> NoRequest] /\ outbox' = {}
  /\ unmailed' = unmailed \cup UNION outbox
  /\ unnoticed' = unnoticed \cup (IF \E r \in Slots : req[r].pc = "notify"
                                  THEN Having({"pending", "attending"}) ELSE {})
  /\ UNCHANGED <<event, rsvp, serving, fragos, sheets, begun, edits, recent, ordered, aware,
                 answer, crossed, sent>>

Reads ==
  \/ \E m \in Members, says \in Answers : BeginAnswer(m, says)
  \/ \E m \in Members, says \in {"pending"} \cup Answers : BeginOverride(m, says)
  \/ BeginMaintain \/ BeginWarno \/ BeginBanner \/ BeginOpord \/ BeginFrago \/ BeginCancel
  \/ BeginPublish \/ BeginReview
Writes(r) ==
  \/ SaveAnswer(r) \/ SaveRoster(r)
  \/ Claim(r) \/ MailWarno(r) \/ CommitWarno(r)
  \/ FlushOpord(r) \/ CommitOpord(r) \/ FlushFrago(r) \/ CommitFrago(r)
  \/ SaveCancel(r) \/ NotifyAffected(r) \/ NotifyFails(r)
  \/ DeleteItems(r) \/ CommitItems(r)
World ==
  \/ \E to \in SUBSET Members : Deliver(to)
  \/ CancelOther \/ Minute
  \/ Edit \/ Schedule \/ Close
  \/ \E m \in Members : Enlist(m)
  \/ Crash

Next == Reads \/ (\E r \in Slots : Writes(r)) \/ World

Spec == Init /\ [][Next]_vars

-----------------------------------------------------------------------------
(* Properties. *)

\* The warning order is mailed to the unit once, though its button is pressed twice or
\* races the banner, and once more only if a request died between mailing and commit.
WarnoMailedOnce == sent.warno <= 1 + faults

\* FRAGOs issued at once get numbers of their own, and none is refused;
\* a number goes out twice only if the first request died before it committed.
FragosNumbered ==
  /\ ~sent.refused
  /\ \A n \in Numbers : sent.frago[n] <= 1 + faults

\* When nothing is under way, everyone whose own answer is that they attend has been
\* mailed the operations order, with the others or in the catch-up of the answer,
\* unless that mail was lost, or their answer overlapped the order or another change
\* of their row.
GoingHaveOrders ==
  /\ outbox = {} /\ event.opord
  /\ \A r \in Slots : req[r] = NoRequest
  => \A m \in Attending \ crossed : answer[m].own => m \in ordered \cup unmailed

\* Once a cancellation is through, everyone whose own answer is that they attend knows
\* of it, unless their notice was dropped as a repetition or lost, or their answer
\* overlapped it.
GoingKnowItIsOff ==
  /\ event.status = "cancelled"
  /\ \A r \in Slots : req[r] # NoRequest => req[r].op # "cancel"
  => \A m \in Attending \ crossed : answer[m].own => m \in aware \cup unnoticed

\* The answer given last stands: tidying the roster, warning orders and earlier
\* answers do not undo it, unless they overlapped it.
AnswersStand ==
  \A m \in Members \ crossed :
    answer[m].says \in Answers =>
      RowsOf(m) # {} /\ \A i \in RowsOf(m) : rsvp[i] = answer[m].says

-----------------------------------------------------------------------------
(* Why the orders are in order: the inductive invariant. *)

Sound == /\ MaxCopies \in Nat \ {0} /\ MaxRequests \in Nat /\ MaxEdits \in Nat /\ MaxFaults \in Nat

\* Where a request can be, by what it came for.
PlaceInv(q) ==
  /\ q.op \in {"answer", "override"} => q.pc = "save" /\ q.row \in Rows /\ q.says # "none"
  /\ q.op = "maintain" => q.pc = "save"
  /\ q.op = "warno" => q.pc \in {"claim", "mail", "commit"}
  /\ q.op \in {"opord", "frago"} => q.pc \in {"flush", "commit"}
  /\ q.op = "cancel" => q.pc \in {"cancel", "notify"}
  /\ q.op \in {"publish", "review"} => q.pc \in {"save", "items"}

\* The row of the event is locked by one request at a time.
LockInv == \A r, s \in Slots : Holds(r) /\ Holds(s) => r = s

\* A warning order that is mailed and not committed is that of the request that has
\* the lock, and the event has none yet.
WarnoInv ==
  /\ \A r \in Slots : req[r].pc # "none" /\ req[r].op = "warno" /\ Holds(r) => ~event.warno
  /\ sent.warno <= faults \/ (event.warno /\ sent.warno <= 1 + faults)
     \/ \E r \in Slots : req[r].pc = "commit" /\ req[r].op = "warno" /\ sent.warno <= 1 + faults

\* The number of a FRAGO is the next one until it is committed.
FragoInv ==
  /\ ~sent.refused /\ \E last \in 0..begun : fragos = 1..last
  /\ \A r \in Slots : req[r].pc # "none" /\ req[r].op = "frago" =>
       /\ req[r].number \in Numbers /\ req[r].number <= begun
       /\ req[r].number - 1 \in fragos \cup {0} /\ \A k \in fragos : k < req[r].number
  /\ \A n \in Numbers :
       \/ sent.frago[n] <= faults
       \/ /\ sent.frago[n] <= 1 + faults
          /\ n \in fragos \/ \E r \in Slots : req[r].pc = "commit" /\ req[r].op = "frago" /\ req[r].number = n

\* What an answer has read of its member's row and of the event is still so, unless
\* it has been overlapped.
AnswerInv(q) ==
  q.pc = "save" /\ q.op \in {"answer", "override"} =>
    LET m == q.row[1]
    IN  \/ m \in crossed
        \/ /\ IF q.seen = "none" THEN RowsOf(m) = {} ELSE RowsOf(m) = {q.row} /\ rsvp[q.row] = q.seen
           /\ event.opord => q.read.opord
           /\ event.status = "cancelled" => q.read.status = "cancelled"

\* Nobody who has answered is given a pending row, or has their row pruned.
RosterInv(r) ==
  req[r].pc # "none" /\ req[r].op \in {"maintain", "warno"} =>
    \A m \in Concerns(r) \ crossed : answer[m].says \notin Answers

\* The operations order goes to all who attend.
OpordInv(q) == q.pc = "commit" /\ q.op = "opord" => Attending \ crossed \subseteq q.to

OrderedInv ==
  event.opord =>
    \A m \in Attending \ crossed : answer[m].own => m \in ordered \cup unmailed \cup UNION outbox
AwareInv ==
  event.status = "cancelled" =>
    \/ \E r \in Slots : req[r].pc = "notify"
    \/ \A m \in Attending \ crossed : answer[m].own => m \in aware \cup unnoticed

HistoryInv ==
  /\ sent \in [warno : Nat, opord : Nat, aar : Nat, frago : [Numbers -> Nat], refused : BOOLEAN]
  /\ answer \in [Members -> [says : Statuses, own : BOOLEAN]]
TypeInv == TypeOK /\ HistoryInv /\ req \in [Slots -> Request \cup {NoRequest}]
SlotInv(r) ==
  /\ req[r].pc # "none" => PlaceInv(req[r])
  /\ AnswerInv(req[r]) /\ RosterInv(r) /\ OpordInv(req[r])
OrdersInv ==
  /\ TypeInv /\ LockInv /\ WarnoInv /\ FragoInv /\ AnswersStand /\ OrderedInv /\ AwareInv
  /\ \A r \in Slots : SlotInv(r)

-----------------------------------------------------------------------------
(* Where the code departs from what it says, or from what one would expect. *)

\* "Cancelling sets status='cancelled' and disables RSVP": a warning order issued
\* later, or by a banner since, opens it again and is mailed to everyone.
CancelledStaysClosed == event.status = "cancelled" => ~event.open

\* "Issuing an OPORD is a one-shot action": two overlapping requests both issue it.
OrderIssuedOnce == sent.opord <= 1

\* Publishing a review twice mails the unit once: two overlapping requests both do.
ReviewPublishedOnce == sent.aar <= 1

\* A review shows the items of one submission: of two overlapping ones both stay.
OneSubmissionShown == \A n, k \in sheets : n = k

\* A member has one row: two page loads give a newcomer two pending ones, and from
\* then on every answer of theirs fails.
OneRowEach == \A m \in Members : Unique(m)

\* A member set to attending by S3 is told of the order: not even when they confirm.
OverriddenHaveOrders ==
  /\ outbox = {} /\ faults = 0 /\ event.opord
  /\ \A r \in Slots : req[r] = NoRequest
  => Attending \ crossed \subseteq ordered \cup unmailed

\* Whoever answers while the order is being issued gets it one way or the other.
LateHaveOrders ==
  /\ outbox = {} /\ faults = 0 /\ event.opord
  /\ \A r \in Slots : req[r] = NoRequest
  => \A m \in Attending : answer[m].own => m \in ordered \cup unmailed

\* Everyone who says they attend has the order: what is not delivered is not sent again,
\* "OPORD email blast complete: {sent} sent, {failed} failed" (issue_opord).
GoingAlwaysHaveOrders ==
  /\ outbox = {} /\ faults = 0 /\ event.opord
  /\ \A r \in Slots : req[r] = NoRequest
  => \A m \in Attending \ crossed : answer[m].own => m \in ordered

\* "Affected members and command/S3 have been notified" (cancel_event): not those whose
\* notice is taken for a repetition of one about another event of that title.
GoingAlwaysKnow ==
  /\ faults = 0 /\ event.status = "cancelled"
  /\ \A r \in Slots : req[r] # NoRequest => req[r].op # "cancel"
  => \A m \in Attending \ crossed : answer[m].own => m \in aware

\* "Preserves non-pending RSVPs": one that is answered while the page loads is
\* removed with the member who left.
AnsweredIsPreserved ==
  [][\A i \in Rows : rsvp[i] \in Answers => rsvp'[i] # "none"]_rsvp

=============================================================================
