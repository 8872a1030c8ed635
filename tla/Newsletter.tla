----------------------------- MODULE Newsletter -----------------------------
(***************************************************************************)
(* The newsletters of S1 (app/routes/newsletter.py, newsletter_scheduler.py*)
(* and newsletter_send.py): the requests that save, send, cancel and       *)
(* delete an issue or its attachments, the tasks that deliver one, and the *)
(* scheduler loop.  They share the tables, the files on disk and one       *)
(* process, and interleave at every await.  A request or a delivery acts   *)
(* on the copy of the row it has read, and a commit writes only the        *)
(* columns whose value differs from that copy.                             *)
(***************************************************************************)
EXTENDS Naturals, FiniteSets

CONSTANTS
  Issues,       \* the ids of newsletters
  Attachments,  \* the files that may be uploaded, each as long as any other
  Deliveries,   \* slots for background deliveries
  Loop,         \* the delivery slot of the scheduler loop
  Ops,          \* the kinds of request that are used, see OpKinds
  MaxAttached,  \* the attachments that fit the limit of the relay
  MaxRequests,  \* bound on the requests begun
  MaxActive,    \* bound on the requests in progress at once
  MaxFaults     \* bound on failing statements and restarts of the portal

OpKinds == {"draft", "schedule", "send", "sendNow", "cancel", "delete",
            "attach", "detach"}
Saves == {"draft", "schedule", "send"}

ASSUME LoopAssumption == Loop \notin Deliveries
ASSUME IssuesAssumption == "none" \notin Issues
ASSUME OpsAssumption == Ops \subseteq OpKinds
ASSUME BoundsAssumption == MaxAttached \in Nat /\ MaxRequests \in Nat /\ MaxActive \in Nat /\ MaxFaults \in Nat

VARIABLES
  row,        \* issue -> its row in newsletters, or NoRow
  listed,     \* attachment -> the issue whose row lists it, or "none"
  files,      \* the attachments on disk
  req,        \* the request of each number
  del,        \* slot -> the delivery it carries out
  due,        \* the issues the scheduler has still to visit in this scan
  ids,        \* the issues ever created
  begun, faults,
  asked,      \* history: issue -> requests to mail it that were accepted
  mailed,     \* history: issue -> deliveries that reached somebody
  sentTexts,  \* history: issue -> the versions that reached somebody
  missing,    \* history: the attachments that were left out of a mail
  dropped,    \* history: the attachments whose removal was requested
  cut,        \* history: the issues whose delivery ended by an exception or crash
  excused     \* history: the issues one of whose saves overlapped a delivery, or
              \* of which the relay took no message without reporting an error

tables == <<row, listed, files, ids>>
bounds == <<begun, faults>>
history == <<asked, mailed, sentTexts, missing, dropped, cut, excused>>
vars == <<tables, req, del, due, bounds, history>>

Statuses == {"draft", "scheduled", "sending", "sent", "failed"}
Times == {"none", "future", "due"}
Requests == 1..MaxRequests
Texts == 0..MaxRequests  \* a saved text has the number of its request
\* text stands for title, subject, body and crest; groups says whether
\* groups_csv names any recipients.
Rows == [status : Statuses, at : Times, text : Texts, groups : BOOLEAN]
NoRow == [status |-> "absent", at |-> "none", text |-> 0, groups |-> FALSE]

NoFile == "none"

Slots == Deliveries \cup {Loop}
RequestPcs == {"idle", "check", "commit", "rekey"}
DeliveryPcs == {"idle", "read", "claim", "resolve", "mail", "record", "commit"}
Results == {"none", "ok", "down"}
Handled == [pc : RequestPcs, op : OpKinds, issue : Issues, seen : Rows \cup {NoRow}, file : Attachments \cup {NoFile}, groups : BOOLEAN]
Delivered == [pc : DeliveryPcs, issue : Issues, seen : [status : Statuses \cup {"absent"}, at : Times, text : Texts, groups : BOOLEAN],
              atts : SUBSET Attachments, result : Results]

\* Each slot is typed, but for an idle one, whose old values are forgotten.
TypeOK ==
  /\ row \in [Issues -> Rows \cup {NoRow}]
  /\ listed \in [Attachments -> Issues \cup {"none"}]
  /\ files \subseteq Attachments
  /\ \A r \in Requests : req[r].pc = "idle" \/ req[r] \in Handled
  /\ \A d \in Slots : del[d].pc = "idle" \/ del[d] \in Delivered
  /\ due \subseteq Issues /\ ids \subseteq Issues
  /\ begun \in 0..MaxRequests /\ faults \in 0..MaxFaults

-----------------------------------------------------------------------------
IdleRequest == [pc |-> "idle"]
IdleDelivery == [pc |-> "idle"]
Delivery(i) == [pc |-> "read", issue |-> i, seen |-> NoRow, atts |-> {}, result |-> "none"]

Init ==
  /\ row = [i \in Issues |-> NoRow]
  /\ listed = [a \in Attachments |-> "none"]
  /\ files = {} /\ due = {} /\ ids = {}
  /\ req = [r \in Requests |-> IdleRequest]
  /\ del = [d \in Slots |-> IdleDelivery]
  /\ begun = 0 /\ faults = 0
  /\ asked = [i \in Issues |-> 0] /\ mailed = [i \in Issues |-> 0]
  /\ sentTexts = [i \in Issues |-> {}]
  /\ missing = {} /\ dropped = {} /\ cut = {} /\ excused = {}

Exists(i) == row[i] # NoRow
End(r) == req' = [req EXCEPT ![r] = IdleRequest]
Goto(r, pc) == req' = [req EXCEPT ![r].pc = pc]
DeliveryGoto(d, pc) == del' = [del EXCEPT ![d].pc = pc]
EndDelivery(d) == del' = [del EXCEPT ![d] = IdleDelivery]
MayFail == faults < MaxFaults /\ faults' = faults + 1

\* A new value reaches the column only when it differs from the copy.
Written(old, seen, new) == IF new = seen THEN old ELSE new

\* Between the read of its copy and the record of its result.
UnderWay(i) == \E d \in Slots : del[d].pc \notin {"idle", "read"} /\ del[d].issue = i

-----------------------------------------------------------------------------
(* Requests. *)

\* A request begins with its db.get of issue i; one that is refused there
\* changes nothing.
Begin(request) ==
  /\ begun < MaxRequests /\ begun' = begun + 1
  /\ Cardinality({r \in Requests : req[r].pc # "idle"}) < MaxActive
  /\ request.op \in Ops
  /\ req' = [req EXCEPT ![begun + 1] = request]

Request(op, i, pc) ==
  [pc |-> pc, op |-> op, issue |-> i, seen |-> NoRow, file |-> NoFile, groups |-> TRUE]

\* newsletter_save; only a draft may name no recipients.
BeginSave(op, i) ==
  /\ \E g \in BOOLEAN :
       /\ g \/ op = "draft"
       /\ Begin([Request(op, i, "commit") EXCEPT !.seen = row[i], !.groups = g])
  /\ UNCHANGED <<tables, del, due, faults, history>>

BeginCancel(i) ==
  /\ row[i].status = "scheduled"
  /\ Begin(Request("cancel", i, "commit"))
  /\ UNCHANGED <<tables, del, due, faults, history>>

BeginDelete(i) ==
  /\ row[i].status \notin {"absent", "sent"}
  /\ Begin(Request("delete", i, "check"))
  /\ UNCHANGED <<tables, del, due, faults, history>>

BeginAttach(i, a) ==
  /\ Exists(i) /\ a \notin files \cup dropped
  /\ Begin([Request("attach", i, "check") EXCEPT !.file = a])
  /\ UNCHANGED <<tables, del, due, faults, history>>

BeginDetach(i, a) ==
  /\ listed[a] = i
  /\ Begin([Request("detach", i, "check") EXCEPT !.file = a])
  /\ UNCHANGED <<tables, del, due, faults, history>>

\* What a save stores: send leaves a draft, which its delivery may take over.
NewStatus(op) == IF op = "schedule" THEN "scheduled" ELSE "draft"
NewTime(old, seen, op) == IF op = "schedule" THEN "future" ELSE Written(old, seen, "none")
Saved(old, q, text) ==
  [status |-> Written(old.status, q.seen.status, NewStatus(q.op)),
   at     |-> NewTime(old.at, q.seen.at, q.op),
   text   |-> text,
   groups |-> Written(old.groups, q.seen.groups, q.groups)]

Asks(op, i) ==
  asked' = IF op = "schedule" THEN [asked EXCEPT ![i] = @ + 1] ELSE asked

\* The first commit of a save of an existing issue; an UPDATE of a row that
\* was deleted meanwhile raises.
CommitSave(r) ==
  LET q == req[r] IN
  /\ q.pc = "commit" /\ q.op \in Saves /\ q.seen # NoRow
  /\ IF Exists(q.issue)
       THEN /\ row' = [row EXCEPT ![q.issue] = Saved(@, q, r)]
            /\ Asks(q.op, q.issue)
            /\ excused' = IF UnderWay(q.issue) \/ row[q.issue].status # q.seen.status
                            THEN excused \cup {q.issue} ELSE excused
            /\ req' = [req EXCEPT ![r] = Request(q.op, q.issue, "rekey")]
       ELSE End(r) /\ UNCHANGED <<row, asked, excused>>
  /\ UNCHANGED <<listed, files, ids, del, due, bounds, mailed, sentTexts, missing,
                 dropped, cut>>

\* The INSERT of a save that found no row, under an id never used before.
CommitNew(r) ==
  LET q == req[r] IN
  /\ q.pc = "commit" /\ q.op \in Saves /\ q.seen = NoRow
  /\ \/ \E i \in Issues \ ids :
          /\ row' = [row EXCEPT ![i] =
               [status |-> NewStatus(q.op), at |-> NewTime("none", "none", q.op),
                text |-> r, groups |-> q.groups]]
          /\ ids' = ids \cup {i}
          /\ Asks(q.op, i)
          /\ req' = [req EXCEPT ![r] = Request(q.op, i, "rekey")]
     \/ Issues \subseteq ids /\ End(r) /\ UNCHANGED <<row, ids, asked>>
  /\ UNCHANGED <<listed, files, del, due, bounds, mailed, sentTexts, missing, dropped,
                 cut, excused>>

\* BackgroundTasks: the delivery runs after the answer, in this process.
Queue(i) ==
  /\ \E d \in Deliveries :
       /\ del[d].pc = "idle"
       /\ del' = [del EXCEPT ![d] = Delivery(i)]
  /\ asked' = [asked EXCEPT ![i] = @ + 1]

\* The second commit, which gives images of the text to the issue, then the
\* delivery of a "send".
Rekey(r) ==
  LET q == req[r] IN
  /\ q.pc = "rekey"
  /\ IF q.op = "send" THEN Queue(q.issue) ELSE UNCHANGED <<del, asked>>
  /\ End(r)
  /\ UNCHANGED <<tables, due, bounds, mailed, sentTexts, missing, dropped, cut,
                 excused>>

\* newsletter_send_now, which awaits nothing after its db.get
SendNow(i) ==
  /\ begun < MaxRequests /\ begun' = begun + 1
  /\ "sendNow" \in Ops
  /\ row[i].groups /\ row[i].status \notin {"absent", "sending", "sent"}
  /\ Queue(i)
  /\ UNCHANGED <<tables, req, due, faults, mailed, sentTexts, missing, dropped, cut,
                 excused>>

CommitCancel(r) ==
  LET q == req[r] IN
  /\ q.pc = "commit" /\ q.op = "cancel"
  /\ row' = IF Exists(q.issue)
              THEN [row EXCEPT ![q.issue].status = "draft", ![q.issue].at = "none"]
              ELSE row
  /\ End(r)
  /\ UNCHANGED <<listed, files, ids, del, due, bounds, history>>

AttachedTo(i) == {a \in Attachments : listed[a] = i}

\* newsletter_delete reads the attachments and unlinks their files ...
Unlink(r) ==
  LET q == req[r] IN
  /\ q.pc = "check" /\ q.op = "delete"
  /\ files' = files \ AttachedTo(q.issue)
  /\ dropped' = dropped \cup AttachedTo(q.issue)
  /\ Goto(r, "commit")
  /\ UNCHANGED <<row, listed, ids, del, due, bounds, asked, mailed, sentTexts, missing,
                 cut, excused>>

\* ... then deletes the row, and the attachments with it.
CommitDelete(r) ==
  LET q == req[r] IN
  /\ q.pc = "commit" /\ q.op = "delete"
  /\ row' = [row EXCEPT ![q.issue] = NoRow]
  /\ listed' = [a \in Attachments |-> IF listed[a] = q.issue THEN "none" ELSE listed[a]]
  /\ dropped' = dropped \cup AttachedTo(q.issue)
  /\ End(r)
  /\ UNCHANGED <<files, ids, del, due, bounds, asked, mailed, sentTexts, missing, cut,
                 excused>>

FileNotWritten(r) ==  \* Mutant: an error while writing the file is swallowed.
  LET q == req[r] IN
  /\ q.pc = "check" /\ q.op = "attach"
  /\ Goto(r, "commit")
  /\ UNCHANGED <<tables, del, due, bounds, history>>

\* newsletter_attachment_add sums the sizes, writes the file ...
WriteFile(r) ==
  LET q == req[r] IN
  /\ q.pc = "check" /\ q.op = "attach"
  /\ \/ /\ Cardinality(AttachedTo(q.issue)) < MaxAttached
        /\ files' = files \cup {q.file}
        /\ Goto(r, "commit")
     \/ /\ Cardinality(AttachedTo(q.issue)) >= MaxAttached
        /\ End(r) /\ UNCHANGED files
  /\ UNCHANGED <<row, listed, ids, del, due, bounds, history>>

\* ... and commits its row, which needs the issue's.
CommitAttachment(r) ==
  LET q == req[r] IN
  /\ q.pc = "commit" /\ q.op = "attach"
  /\ listed' = IF Exists(q.issue) THEN [listed EXCEPT ![q.file] = q.issue] ELSE listed
  /\ End(r)
  /\ UNCHANGED <<row, files, ids, del, due, bounds, history>>

\* newsletter_attachment_delete: the file goes first.
UnlinkOne(r) ==
  LET q == req[r] IN
  /\ q.pc = "check" /\ q.op = "detach"
  /\ files' = files \ {q.file}
  /\ dropped' = dropped \cup {q.file}
  /\ Goto(r, "commit")
  /\ UNCHANGED <<row, listed, ids, del, due, bounds, asked, mailed, sentTexts, missing,
                 cut, excused>>

CommitDetach(r) ==
  LET q == req[r] IN
  /\ q.pc = "commit" /\ q.op = "detach"
  /\ listed' = [listed EXCEPT ![q.file] = "none"]
  /\ End(r)
  /\ UNCHANGED <<row, files, ids, del, due, bounds, history>>

\* A statement of a request fails: what it has not committed is rolled back.
RequestFails(r) ==
  /\ req[r].pc # "idle" /\ MayFail
  /\ End(r)
  /\ UNCHANGED <<tables, del, due, begun, history>>

-----------------------------------------------------------------------------
(* deliver_newsletter. *)

\* Mutant: an issue that is scheduled is refused, too.
RefusesScheduled(d) ==
  LET i == del[d].issue IN
  /\ del[d].pc = "read"
  /\ IF row[i].status # "draft"
       THEN EndDelivery(d)
       ELSE del' = [del EXCEPT ![d].pc = "claim", ![d].seen = row[i]]
  /\ UNCHANGED <<tables, req, due, bounds, history>>

ReadIssue(d) ==
  LET i == del[d].issue IN
  /\ del[d].pc = "read"
  /\ IF row[i].status \in {"absent", "sending", "sent"}
       THEN EndDelivery(d)
       ELSE del' = [del EXCEPT ![d].pc = "claim", ![d].seen = row[i]]
  /\ UNCHANGED <<tables, req, due, bounds, history>>

\* Mutant: the status is set but not committed before the mail goes out.
ClaimNotCommitted(d) ==
  LET i == del[d].issue IN
  /\ del[d].pc = "claim"
  /\ IF Exists(i) THEN DeliveryGoto(d, "resolve") ELSE EndDelivery(d)
  /\ UNCHANGED <<tables, req, due, bounds, history>>

\* The commit of "sending"; a row deleted meanwhile raises.
Claim(d) ==
  LET i == del[d].issue IN
  /\ del[d].pc = "claim"
  /\ IF Exists(i)
       THEN row' = [row EXCEPT ![i].status = "sending"] /\ DeliveryGoto(d, "resolve")
       ELSE UNCHANGED row /\ EndDelivery(d)
  /\ UNCHANGED <<listed, files, ids, req, due, bounds, history>>

Resolve(d) ==
  /\ del[d].pc = "resolve"
  /\ del' = [del EXCEPT ![d].pc = "mail", ![d].atts = AttachedTo(del[d].issue)]
  /\ UNCHANGED <<tables, req, due, bounds, history>>

\* The copy is of no use after the mail.
MailDone(d, result) ==
  del' = [del EXCEPT ![d] = [Delivery(@.issue) EXCEPT !.pc = "record", !.result = result]]

\* send_newsletter_sync mails the copy that was read; a file that cannot be
\* opened is left out.  With no recipients it succeeds and reaches nobody.
MailGoesOut(d) ==
  LET i == del[d].issue IN
  /\ del[d].pc = "mail"
  /\ IF del[d].seen.groups
       THEN /\ mailed' = [mailed EXCEPT ![i] = @ + 1]
            /\ sentTexts' = [sentTexts EXCEPT ![i] = @ \cup {del[d].seen.text}]
            /\ missing' = missing \cup (del[d].atts \ files)
       ELSE UNCHANGED <<mailed, sentTexts, missing>>
  /\ MailDone(d, "ok")
  /\ UNCHANGED <<tables, req, due, bounds, asked, dropped, cut, excused>>

\* The relay takes none of the messages, each with an error of its own, and
\* err stays None ...
RelayRefuses(d) ==
  /\ del[d].pc = "mail" /\ MayFail
  /\ excused' = excused \cup {del[d].issue}
  /\ MailDone(d, "ok")
  /\ UNCHANGED <<tables, req, due, begun, asked, mailed, sentTexts, missing,
                 dropped, cut>>

\* ... or no connection can be made, and err is set.
RelayDown(d) ==
  /\ del[d].pc = "mail" /\ MayFail
  /\ MailDone(d, "down")
  /\ UNCHANGED <<tables, req, due, begun, history>>

\* A second session reads the row again.
ReadAgain(d) ==
  LET i == del[d].issue IN
  /\ del[d].pc = "record"
  /\ IF Exists(i)
       THEN del' = [del EXCEPT ![d].pc = "commit",
                               ![d].seen.status = row[i].status]
       ELSE EndDelivery(d)
  /\ UNCHANGED <<tables, req, due, bounds, history>>

OutcomeError(result) == "error"  \* Mutant: a status that nothing else knows.
AlwaysSent(result) == "sent"  \* Mutant: a send that reached nobody is recorded as sent.

Outcome(result) == IF result = "down" THEN "failed" ELSE "sent"

\* Mutant: only a success is recorded.
FailureNotRecorded(d) ==
  LET i == del[d].issue IN
  /\ del[d].pc = "commit"
  /\ row' = IF Exists(i) /\ del[d].result = "ok" THEN [row EXCEPT ![i].status = "sent"] ELSE row
  /\ EndDelivery(d)
  /\ UNCHANGED <<listed, files, ids, req, due, bounds, history>>

\* The commit of the result.
Record(d) ==
  LET i == del[d].issue IN
  /\ del[d].pc = "commit"
  /\ row' = IF Exists(i)
              THEN [row EXCEPT ![i].status =
                      Written(@, del[d].seen.status, Outcome(del[d].result))]
              ELSE row
  /\ EndDelivery(d)
  /\ UNCHANGED <<listed, files, ids, req, due, bounds, history>>

Claimed(d) == del[d].pc \in {"resolve", "mail", "record", "commit"}
InHand == {del[d].issue : d \in {e \in Slots : Claimed(e)}}

\* A statement or the rendering raises: what was not committed is lost, and
\* the scheduler logs it and goes on.
DeliveryFails(d) ==
  /\ del[d].pc \notin {"idle", "mail"} /\ MayFail
  /\ cut' = IF Claimed(d) THEN cut \cup {del[d].issue} ELSE cut
  /\ EndDelivery(d)
  /\ UNCHANGED <<tables, req, due, begun, asked, mailed, sentTexts, missing,
                 dropped, excused>>

-----------------------------------------------------------------------------
(* The scheduler loop, time, and the process. *)

IsDue(i) == row[i].status = "scheduled" /\ row[i].at = "due"

Scan ==
  /\ del[Loop].pc = "idle" /\ due = {}
  /\ due' = {i \in Issues : IsDue(i)}
  /\ due' # {}
  /\ UNCHANGED <<tables, req, del, bounds, history>>

Visit(i) ==
  /\ del[Loop].pc = "idle" /\ i \in due
  /\ due' = due \ {i}
  /\ del' = [del EXCEPT ![Loop] = Delivery(i)]
  /\ UNCHANGED <<tables, req, bounds, history>>

TimePasses(i) ==
  /\ row[i].at = "future"
  /\ row' = [row EXCEPT ![i].at = "due"]
  /\ UNCHANGED <<listed, files, ids, req, del, due, bounds, history>>

\* A restart forgets requests, background tasks and the scan.
Restart ==
  /\ MayFail
  /\ req' = [r \in Requests |-> IdleRequest]
  /\ del' = [d \in Slots |-> IdleDelivery]
  /\ due' = {}
  /\ cut' = cut \cup InHand
  /\ UNCHANGED <<tables, begun, asked, mailed, sentTexts, missing, dropped,
                 excused>>

-----------------------------------------------------------------------------
Deliver(d) ==
  \/ ReadIssue(d) \/ Claim(d) \/ Resolve(d)
  \/ MailGoesOut(d) \/ RelayRefuses(d) \/ RelayDown(d)
  \/ ReadAgain(d) \/ Record(d) \/ DeliveryFails(d)

Next ==
  \/ \E i \in Issues :
       \/ \E op \in Saves : BeginSave(op, i)
       \/ BeginCancel(i) \/ BeginDelete(i) \/ SendNow(i)
       \/ \E a \in Attachments : BeginAttach(i, a) \/ BeginDetach(i, a)
  \/ \E r \in Requests :
       \/ CommitSave(r) \/ CommitNew(r) \/ Rekey(r)
       \/ CommitCancel(r) \/ Unlink(r) \/ CommitDelete(r)
       \/ WriteFile(r) \/ CommitAttachment(r) \/ UnlinkOne(r) \/ CommitDetach(r)
       \/ RequestFails(r)
  \/ \E d \in Slots : Deliver(d)
  \/ Scan \/ (\E i \in Issues : Visit(i) \/ TimePasses(i))
  \/ Restart

Spec == Init /\ [][Next]_vars

\* The process is restarted and keeps running its tasks; the clock goes on.
LoopFairness ==
  /\ WF_vars(Scan) /\ \A d \in Slots : WF_vars(Deliver(d))
  /\ \A i \in Issues : WF_vars(Visit(i)) /\ WF_vars(TimePasses(i))
FairSpec == Spec /\ LoopFairness

-----------------------------------------------------------------------------
(* Properties. *)

\* An issue is "sending", which no request but a save gets it out of, only
\* while a delivery works on it, or since one was cut short by an exception
\* or a restart.
SendingIsInHand ==
  \A i \in Issues : row[i].status = "sending" => i \in InHand \cup cut

\* An issue reaches its readers at most once for every send, send-now or
\* schedule that was accepted: no failure, restart, cancellation or second
\* scan makes the portal mail it on its own account.
NoUnaskedMail == \A i \in Issues : mailed[i] <= asked[i]

\* "sent" is said only of a text that has reached somebody, unless it names no
\* recipients, a save of the issue overlapped a delivery of it, or the relay
\* refused every message.
SentWasMailed ==
  \A i \in Issues :
    row[i].status = "sent" /\ row[i].groups /\ i \notin excused =>
      row[i].text \in sentTexts[i]

\* A mail leaves out a listed attachment only when its removal was requested.
AttachmentsMailed == missing \subseteq dropped

\* Issues are in order: "sending" is in hand, nothing is mailed unasked, what is
\* said to be sent was, and with its attachments.
IssuesAreInOrder ==
  TypeOK /\ SendingIsInHand /\ NoUnaskedMail /\ SentWasMailed /\ AttachmentsMailed

\* A scheduled issue whose time has come does not stay scheduled, whatever
\* fails.
DueIsHandled == \A i \in Issues : IsDue(i) ~> ~IsDue(i)

-----------------------------------------------------------------------------
(* What the program does not keep. *)

\* "scheduled" and "sending" keep other deliveries away: violated by two
\* deliveries that read the status before either has committed, and by a save,
\* which resets it.
OneDelivery == \A d, e \in Slots : d # e /\ Claimed(d) /\ Claimed(e) =>
  del[d].issue # del[e].issue

\* "sent" is said only of a text that was mailed: violated by a save during a
\* delivery, and by a relay that refuses every message.
SentIsMailed == \A i \in Issues : row[i].status = "sent" => row[i].text \in sentTexts[i]

\* An issue does not stay "sending": violated by a restart.
SendingEnds == \A i \in Issues :
  row[i].status = "sending" ~> row[i].status # "sending"

\* The scheduler mails only what is still scheduled: violated by a
\* cancellation between its scan, or its read, and its claim.
LoopMailsScheduled ==
  [][Claim(Loop) => row[del[Loop].issue].status # "draft"]_vars

\* The attachments of an issue stay below the limit of the relay: violated by
\* two uploads at once.
AttachmentsBounded == \A i \in Issues : Cardinality(AttachedTo(i)) <= MaxAttached
=============================================================================
