# Praetorium: a TLA+ model

Praetorium is the portal of a volunteer unit: a FastAPI application on
PostgreSQL (`src/app`), a recruiting daemon (`src/recruit-pipeline`), scripts on
the host (`src/scripts`, `src/leave_return_runner.py`) and a Nextcloud whose Deck
boards, Forms, announcements, groups and accounts all of them use. The modules
here model the parts in which several actors change shared state, or in which a
chain of external calls may break in the middle. TLC checks them on small
instances; TLAPS proves the most important results for every instance.

## 1. The system

### Components, their state and their operations

| component | state | operations | who else touches the state | module |
|---|---|---|---|---|
| Recruit daemon (`recruit-daemon.py`) | `state.json` and its copy in memory: processed submissions, cards asked to pay, onboarded, welcomed, failures, dead letters | one poll every five minutes: intake, payment notices, onboarding, save | S1 staff edit the board and `state.json`; the portal edits the same cards and mails credentials | `RecruitIntake`, `RecruitOnboarding` |
| Recruiting board (`s1_admin.py`) | Deck cards and comments; recruiters' load and credit | advance, hold, resume, decline, correct, note a payment | daemon and PayPal webhook rewrite the same cards | `PipelineBoard` |
| PayPal webhook (`paypal_webhook.py`) | `webhook_events`, fees, meal payments | one handler per delivery | S1 and S4 record payments by hand | `PaypalWebhook` |
| Elections (`elections.py`) | phase, dates, eligible count, nominations, receipts, ballots, voter roll | page view (which advances the phase), override, nominate, accept, decline, vote | promotions change who is eligible | `Elections`, `BallotBox` |
| Newsletter (`newsletter*.py`) | issues, attachments, files, status | save, schedule, send, cancel, delete; deliveries as tasks; the scheduler loop | | `Newsletter` |
| Offboarding and leave (`s1_admin.py`, two scripts) | member status, separation log, accounts, groups, Talk rooms, tokens | separate, reactivate, place on leave, return; the reconciler; the daily runner | S1 and Nextcloud's own administration | `Separation` |
| Events (`events.py`) | the event, RSVPs, orders, FRAGOs, review | answer, override, page load, banner, WARNO, OPORD, FRAGO, cancel, publish | ops console, calendar | `EventOrders` |
| Recurring series (`events.py`) | one row per occurrence, the rule on the master | edit, move, cancel, delete by scope; change the range; pull the calendar | Nextcloud calendar | `EventSeries` |
| Attendance (`events.py`, `ops_console.py`, `attendance.py`) | RSVP rows, credits, `ftx_count`, Mission Leader ribbon | check in and out, mark, no-show, walk-in, finalize, reopen | S1 awards ribbons | `Attendance` |
| Operations console (`ops_console.py`) | guard slots and duties, duty team, vexillations, buddies | configure, assign, deal automatically, relieve | check-ins | `OpsConsole` |
| Member records, teams, promotions (`member_edit.py`, `promotions.py`, `contact_edit.py`, `team_manage.py`, `nc_groups.py`) | members, rank history, staged changes, Nextcloud groups | edit, promote, batch, stage, finalize, move, rename a team | Nextcloud | `Roster` |
| Shops (`shops.py`, `member_edit.py`) | billets, requests to join, shop groups | ask, accept, decline, edit billets | the profile page | `Shops` |
| Training and ribbons (`training_claims.py`, `awards.py`, `ribbons_admin.py`) | claims, sign-offs, certificates, ribbons, licence class | claim, approve, deny, revoke, grant, derive | finalization of events | `Training` |
| S3 operations (`s3_ops.py`, `instructor_rotation.py`) | instructors of a series; schedule blocks | deal and apply a plan; add, change, remove, move blocks | leave, cancellations | `Rotation`, `ScheduleBuilder` |
| S4 logistics (`s4_admin.py`) | expenses, purchases, donations, meals, inventory, checkouts | submit, approve, reject, pay, advance, check out and in | webhook, several officers | `Logistics` |
| Announcements, threat level, bell (`announcements.py`, `tlas.py`, `notifications.py`) | announcements in Nextcloud, notifications | post, edit, delete, set the level, read | | `Broadcast` |
| Sign-in and sessions (`routes/auth.py`, `auth.py`, `main.py`) | one cookie per browser, Nextcloud's grant token, roles, verification | sign in, callback, pages, refresh, verify, sign out | several tabs | `Sessions` |
| S2, configuration caches, feedback, geography, pages and media | records, caches, one Deck card per feedback | | | none |

They interact in four ways: rows of one PostgreSQL database (read committed, one
transaction per handler or several); cards of one Deck board, read and PUT back
whole; Nextcloud accounts and groups; and mail, which cannot be taken back. The
portal runs in one process whose handlers interleave at every `await`. The
daemon, the reconciler and the leave runner are processes of their own, started
again by systemd.

Three facts about the database layer are in all modules. Sessions keep what they
have read (`expire_on_commit=False`): a handler decides on a copy. An UPDATE
writes only the attributes whose value differs from that copy, so that two
handlers overwrite each other in the columns they both change and not in
others. And an UPDATE of a row deleted meanwhile raises, which ends the handler.

### Hard behaviours, and what makes the components correct

* **Chains of external calls** (onboarding, intake, webhook, offboarding,
  announcements, group renaming): any call may fail, or take effect although its
  reply is lost; the process may die between two of them. Whoever is told that
  something happened must be told the truth, and nobody may be lost half way.
* **Memory ahead of disk**: the daemon saves at the end of a poll, so a crash
  makes it forget what it did to the outside world.
* **Stale copies**: handlers of the board PUT the card they have read; page views
  write the phase they have read; the profile editor and the S4 buttons act on a
  page that may be hours old; plans wait in a browser; roles are cached in a cookie.
* **At-least-once delivery** (PayPal) and repeated clicks, which meet a UNIQUE
  row, a row lock, a status check, or nothing.
* **Background tasks** that run after the response, beside the next request.
* **Long legal histories**: finalize, reopen, finalize; approve, revoke, grant;
  move, extend and delete parts of a series; stage, promote, finalize.
* **Boundaries**: amounts of money between fee, meal and donation; the rounding
  of a quorum; numbers of devices; the ends of a range; a turn that wraps.

`PROJECT.json` lists the hazards with their lines and the properties that cover
them.

## 2. The modules

| module | models |
|---|---|
| `RecruitOnboarding`, `RecruitIntake` | the phases of the daemon, S1's edits, the portal's advance mail, the recruit |
| `PipelineBoard` | one card on the board, and every program that rewrites it |
| `PaypalWebhook` | deliveries of payments and what they settle |
| `Elections`, `BallotBox` | one election, its requests as transactions; abstract: a vote adds a ballot and a name in one step |
| `Newsletter` | issues under requests, deliveries and the scheduler |
| `Separation` | leaving, coming back and leave, in portal, Nextcloud and two scripts |
| `Attendance` | who was at an event, and what follows from it |
| `EventOrders`, `EventSeries` | one event with its answers and orders; the rows of a series |
| `Roster` | records of members, promotions, teams, and the groups that follow |
| `Shops`, `Training` | one member's shops; one member's training record |
| `Rotation`, `ScheduleBuilder`, `OpsConsole` | instructors of a series, blocks of a day, extra duties of an event |
| `Logistics`, `Broadcast`, `Sessions` | the S4 desk, what is told to everybody, the session of a browser |
| `MCRecruitOnboarding`, `MCRecruitIntake`, `MCElections`, `MCNewsletter`, `MCSeparation`, `MCRoster` | instances for TLC of the module of that name |
| `MCEvents`, `MCMembers`, `MCPortal` | several components in one instance, see below |
| `RecruitOnboarding_proofs`, `RecruitIntake_proofs`, `Elections_proofs`, `Newsletter_proofs`, `Roster_proofs`, `MCMembers_proofs`, `MCPortal_proofs`, `MCEvents_proofs` | theorems; those of an MC module are about the components it composes; `MCMembers_proofs` also has the one about `MCSeparation` |

In every module an operator whose comment begins with "Mutant", or that stands
just before the definition it deviates from, is a wrong version of it; it is
used to see that the properties notice. The section at the end of a module, "What
the code does not keep", states what one would expect and does not hold; see
section 3.

Most modules of the portal have the same frame. `req[r]` is the request in slot
`r`, a record of what it has read and what it will write; a request begins with
its reads (`Begin...`, `Post...`), goes on at each external call, and ends with
its commit. `MaxActive` requests overlap, `MaxRequests` begin in a history,
`MaxFaults` calls fail or processes restart. The code protects little against
overlapping requests about the same row, and what it does not promise must not
be asked of it; but a property that only spoke of histories without overlap
would be of little use. So the history variable `crossed` collects the rows,
members or topics *about which* two requests overlapped, and a property says
that everything else is right, while its section "does not keep" says what
overlapping can do. Where a constraint, a lock or a status check does protect,
the property has no such exception (`WarnoMailedOnce`, `FragosNumbered`,
`BooksAreBacked`, `GivenDutiesStand`, `OneVexEach`, `CommentsStay`).

### RecruitOnboarding

`pc` follows `_onboard_member` step by step: create the account, (for an existing
one) read `lastLogin` and reset the password, add groups, insert the roster row,
mail, move the card and record it. Each external call has a success action, one
for each way to fail that the code tells apart, and one in which the effect
happens and the reply is lost. `mem` and `disk` are the state dictionary and
`state.json`. A password is not a string: `holders[u]` are the cards in whose
mailbox the *current* password lies, `live` says whether the password the daemon
has in hand is still the current one, `chosen` that the owner has replaced it.
S1 is told by a call to Talk, which may be refused like any other (`TellS1`):
`notify_s1_nctalk` then returns False and nobody looks (`recruit-daemon.py:726`), so
that `warned` are those S1 was told of and `unheard`, a history variable, those of
whom Talk refused to tell. `DryRun` is the daemon run by hand with `--dry-run` while
the service is stopped: it calls nothing, but records the cards it would onboard as
onboarded in the `state.json` the service starts from (`recruit-daemon.py:2853`).
`rehearsed` are the cards so recorded. The properties make an exception of these two
sets and no other; `OnboardedAreMembers` and `HalfOnboardedAlwaysTold`, in the table
of what the code does not keep, are the same statements without it. Any 5xx reply to
a mail counts as a permanent rejection, that of a login too (`WelcomeBounces`), whose
note on the card is a PUT that names a stack.
`portal` is one request to the portal's advance button, which resets and mails
on its own account for the cards in `PortalCards`.

### RecruitIntake

A submission is a record of what the code can tell apart: the result of the
blacklist screen, the company it is routed to, the quality of the address, and
whether the geocoder finds it. A submission may make several cards
(`Subs \X 1..MaxCards`) because a POST may be repeated. The poll visits the
submissions, then the cards of "Documents & Payment" as they were listed, then
saves; a poll that raises keeps what it has recorded in memory and saves nothing.
Failures come out of a budget (`faults`, at most `MaxFaults`), and `lost` counts
those whose effect happened although the daemon did not see it. `abandoned` is a
history variable: the submissions that a dry run, or a forward whose failure
goes unnoticed, has recorded without any effect. Notices to S1 may be refused at any
time, with or without another failure (the kind "notice", which uses none of the
budget): `told` and `flagged` are what S1 was told of, `unheard` and `unflagged` what
Talk refused to tell.

### PipelineBoard

A card is a record of its stack and of the parts of its text that operations
rewrite. An operation of slot `r` reads the card (`Look`, for some also `Fetch`
and `ReadComments`), and later stores a card made from its copy (`Put`), with or
without the answer being lost. Any step may be the last (`Abandon`). `fresh` is
the set of slots whose ETag is current: it changes with every PUT. `holds` are
the return stacks written into comments. `visited` and `heldFrom` are history
variables. The recruiter's row is read and written in two steps.

### PaypalWebhook

A payment is an amount in cents and what its payer's address and name match. A
delivery of slot `h` goes through insert, payer, board, annotation, members,
fee or meal, notification and outcome. A failure of a best-effort call lets it
go on; a failure of a statement, two members of one name, or a crash ends it, and
the history variable `dropped` remembers for which payment; PayPal may deliver
again at any time. `fee[m].by`, `meal[e]`, `notes` and `told` record which transaction had
which effect.

### Elections and BallotBox

A request is a record with its own copy of what it has read; reads and the
commit are separate actions, UNIQUE constraints are checked at the commit, and
`RowLocked` is the row lock that a flushed UPDATE of `_auto_advance` holds. Time
is an instant `now`; windows are closed intervals. `BallotBox` is the promise:
one step adds one ballot and one name. `BoxSpec` says that `Elections` implements
it under `box <- ballots, voters <- roll`.

### Newsletter

`row` are the issues, `listed` and `files` the attachments in the table and on
disk, `del` the deliveries. `deliver_newsletter` reads the status (`ReadIssue`),
commits "sending" (`Claim`), mails and archives (`Resolve`, `MailGoesOut`), and commits the outcome
(`Record`); a save, a cancellation, a second delivery or a restart may come
between any two of these. `asked` counts the requests to mail that were
accepted, `mailed` the deliveries that reached somebody. The scheduler scans,
then visits what it has found one by one. Not modelled: images, which are files
that nothing else reads, and how groups are resolved to recipients.

### Separation

`account[m]` is what the member has in Nextcloud (enabled, groups, rooms, tokens),
`log[m]` the flags of the rows in `separation_log`. The portal calls Nextcloud
before it commits; the reconciler lists the separated, looks at each one's
leftovers, removes them by `occ` and writes the flags it has verified. `outside`
is what S1 or the user does in Nextcloud itself. `regained` and `misread` are
history variables for the two cases in which the flags cannot be right: access
given back unseen, and an `occ` whose failure reads like an empty answer.
A user name that `SAFE_UID` refuses (`offboard-reconcile.py:48`) is reported at every
visit and nothing is done for it; the members of the model have plain names. A query
that raises, in the look or later, ends the visit (`VisitFails`).
`_nc_group_remove` (`s1_admin.py:3160`) never removes a group, because httpx has
no `delete(data=...)` and the exception is swallowed; the model says so. The
docstring of `recompute_recruiter_loads` (`s1_admin.py:652`) counts applicants
only, while offboarding a recruit releases load as well. `MCSeparation` instantiates
the module under other names (`Persons`, `standing`, `handling`, ...), which differ
from those of `MCMembers`, so that one module can prove theorems about both.

### EventOrders

One event, `rsvp[<<member, copy>>]` its rows (a member may get two, `MaxCopies`).
A warning order is claimed by a row lock and a date (`Claim`); FRAGO numbers are
drawn under the row lock; the operations order has only a check. The OPORD is
mailed by a background task (`outbox`) to those who attend when it is issued,
and answers given later are caught up. Any of these mails may be refused or have no
address to go to (`Deliver`): this is only logged, and the member is in `unmailed`.
Notices of a cancellation go through `create_notification`, which drops one when the
member had one of the same title within a minute; the title names the event and not
its day, so that the cancellation of another occurrence (`CancelOther`) makes a
member `recent` until the minute is over (`Minute`). Each notice commits on its own,
and a failure loses the others (`NotifyFails`); who was to get one and did not is in
`unnoticed`. `AnswersStand`, `GoingHaveOrders` and `GoingKnowItIsOff` relate what a
member answered last to what they were sent; the latter two except `unmailed` and
`unnoticed`, `GoingAlwaysHaveOrders` and `GoingAlwaysKnow` do not, and fail. Left
out: FRAGO mails and their count, the WARNO's confirmation mail, the posts in Talk
and the bells of command and S3, meals and guests, invitation groups.

### EventSeries

`row[i].date` is a day of a small calendar, whose months begin after the days in
`Before`; a series is every `Period` days or on one day of the month. `Begin`
reads the rows, `Commit` writes; `Sync` pulls the Nextcloud calendar (`CalDates`);
`Pass` lets a day go by. A row has a `title`, by which with the day the pull finds
it, and a `text`, which stands for place and description; 0 are those of the
calendar. A row that an entry finds gets the entry's text, where the entry has one
(`described`); a wide edit therefore leaves contents that agree only until the
next pull (`ContentsAlwaysAgree`), and `ContentsAgree` says that titles agree and
that texts do but for those of the calendar (`Alike`). `OneOccurrenceEach`,
`PastStands`, `RangeHolds`, `ContentsAgree` and `EntriesOnce` make up
`SeriesIsInOrder`. Left out: rules by the nth weekday and yearly ones, ends of
occurrences, which a pull overwrites as well, the window of days it asks for,
reading of iCalendar text. Occurrences added later get no RSVP rows, and an
extension clones the earliest row; both are in the model. A number of a row is not
given again while a request in progress has read the row that had it (`Unused`):
the database never does.

### Attendance

A request is the transaction of one handler; finalizing goes through its
flushes: mark check-ins, count attendees, read ribbons, commit. `event[e].stamp`
is the title and date, which credits are known by; `grants` and `ribbon` are the
Mission Leader grants and devices, `cited` the citations. TLC's instance is the page
"attendance" of `MCMembers` (there `Roll`), in a run of its own: `AttendanceSpec` starts
with one commander of both events, with or without a ribbon given by hand, or of
neither. The theorems are about every start.

### OpsConsole

Three pages that share only the check-ins: guard (slots, assignment by hand and
by the automatic dealing), extra duty, and teams (vexillations, buddies). A
configuration gives the numbers of slots anew; a guard whose slot is deleted is a
broken foreign key, so that it fails (`stuck`). `ConsoleIsInOrder` says that the
exempt are spared unless an officer overrode it, that dealing is once and even,
that every guard's slot stands, and that duties given by hand stay. Taking a member out
of one vexillation and into another is one step: of two that overlap, the UNIQUE
constraint on the member makes the later one fail as a whole. Left out:
labels of slots, field status, what a check-out does to attendance (`Attendance`).

### Rotation and ScheduleBuilder

`plan_rotation` is a function of the pool, the recent instructors, leave and the
occurrences (`FirstCycles`, `Turns`); the shuffle is a nondeterministic order. A
plan is shown, and applied at any later time. `ScheduleIsInOrder` says that a day
is shown in the order of its times after a block was added, unless the day is in
`crossed`: two requests about it overlapped, or an update wrote back a day from
which another had moved the block meanwhile (`Strayed`). Left out: publishing a
schedule, labels; today is one clock, where the code mixes UTC and local time.

### Roster

The profile editor saves in steps as the code does: page, rank (with its group
and history), title and rival leaders, team group, commit. Promotions change the
group before the commit, the batch after it. A renaming makes a group, fills it
from a listing, and drops the old one. `stages` are the staged changes, read by a
finalization and carried out one by one (`ExecuteStage`). An address that moves a
member is a move to any team. Left out: the Talk room and calendar actor that
also follow, assistant leaders, conduct, mail addresses.

### Shops and Training

`Shops` is one member: billets are a set of shop and kind, the profile page shows
them and saves what it shows; an acceptance reads, calls Nextcloud and commits.
`Training` is one member: `rows[t]` counts the records of an item because nothing
makes them unique; ribbons carry devices and comments; `ribbon_derive` counts
attended FTXs. `CommentsStay` says that an award takes no earlier comment away.
The derivation that an approval ends with counts as none when it fails; only the
database can fail there, and then the commit fails with it.
Left out: notices, archiving of documents, who leads a shop.

### Logistics

No handler asks for the status its button was shown for, and so `seen[c]` are
all statuses a page can have shown, and any of their buttons may be pressed at
any time. `DeskIsStraight` says what nevertheless holds: nothing comes into the
inventory unbacked or is received without coming into it, somebody stands behind
every payment, the log says who has what, and heads are told. Left out: meal
plans and prices, edits of items, receipts, the hub pages.

### Broadcast

Announcements live in Nextcloud and have its numbers, notifications refer to
them. An edit deletes and posts again. Every call may be refused, or done with its
answer lost, the repost of an edit too. The database may fail to ring the bell or to
purge it, which is only logged (`RingFails`, `PurgeFails`); a topic that it did not ring
is in the history variable `unrung`. `EverybodyIsTold` says that a level or an
announcement rings the bell unless it is in `unrung`, that nothing in the bell points
at what is gone, and that an edited announcement stands once. Left out: Talk and mail.

### Sessions

One browser: a request works on the cookie it was sent with and its response
replaces the cookie as a whole. `minted` is when a sign-in began; Nextcloud keeps
one grant token, of the last authorize page. The states of flows expire and are
crowded out at `Cap` (4 in the code). Roles are refreshed after `Interval`, a
failed refresh is noted as one, too. `wrong` collects what was done that should
not be: a granted sign-in refused, a page on stale roles, a write by a guest, a
page before the contact details were verified. The OAuth library is modelled from
its use. Left out: tokens against forged requests, the revocation of Nextcloud's
token, requests that take less than a tick.

### The composed instances

`MCEvents`, `MCMembers` and `MCPortal` put components that belong together into one
state space. The components have no variable in common that more than one of
them changes, so a product would only multiply their states; a behaviour
therefore chooses one of them (`page`), and the variables of the others are 0.
Request tables, clocks, counters and the ribbons of
`Training` and `Attendance` are shared by name. A component's bound that
differs from the others' is given in its `INSTANCE ... WITH`. The operations console
and the session of a browser are explored from several sides (`guard`, `duty`,
`teams`; `signins`, `sessions`), because their parts share only what they read. A
property of a composed instance is `page = ... =>` the component's own
conjunction of invariants.

## 3. What is checked

Every run (`tlc -config X.cfg MCModule`) ends without an error within five
minutes. Where a component has several invariants that say one thing together,
the run checks their conjunction, named for that thing; TLC still says which
state breaks it, and the conjuncts are definitions of their own.

| cfg, module | instance | properties |
|---|---|---|
| `MCOnboarding`, `MCRecruitOnboarding` | 1 card, 2 attempts, 2 crashes, 2 edits or dry runs, all faults but `lastLogin` | `CredentialsAfterRoster`: nobody is sent credentials, or recorded as onboarded but by a dry run, before they are on the roster; `OnboardedCanLogIn`; `MailedPasswordWorks`; `NoSilentHalfOnboarding`: missing groups are reported, or Talk refused the report |
| `MCOnboardingLive`, `MCRecruitOnboarding` | 1 card, every fault, portal button in use | `BoundedRetry`: a card in Approved is onboarded or dead-lettered |
| `MCVoting`, `MCElections` | 2 members, 2 requests, every kind, ordered and overlapping windows | `BallotsMatchRoll`; `BallotsForCandidates`; `NominationsMatchReceipts`; `BoxSpec`, the refinement of `BallotBox` |
| `MCElectionEnds`, `MCElections` | 2 members, 2 requests, overrides | `EndsComplete` |
| `MCIntake`, `MCRecruitIntake` | 1 submission of any kind, 1 fault of any kind, notices refused at any time, 1 crash, 1 edit | `ApplicationsAreKept` (types; no lost application; repetition only after a lost reply or a crash); `BlacklistedNeverSilently`; `SubmissionsHandled`; `PaymentAsked` |
| `MCNewsletter`, `MCNewsletter` | 1 issue, 1 attachment, 3 requests of any kind and the deliveries they start, the loop, 1 fault or restart | `IssuesAreInOrder` (types; who is "sending" is in a delivery's hand; no mail that was not asked for; "sent" was mailed; listed attachments are mailed); `DueIsHandled` |
| `MCSeparation`, `MCSeparation` | 1 member, serving or on the way out, 2 requests of any kind, both scripts, 1 fault, 1 act of S1 in Nextcloud | `SeparationsAreInOrder` (types; what a separated member still has is shown to S1; the return is mailed once); `CleanedInTheEnd` |
| `MCAttendance`, `MCMembers` | 1 member, 2 FTXs, 4 requests of any kind, 1 edit of an event | `RecordsAgree` (types; credits are earned; FTX counts are those of the record; who was taken off stays off); `AwardsMatchGrants` |
| `MCRoster`, `MCRoster` | a leader and a recruit, 3 teams, 2 ranks, 3 requests of any kind, 1 fault | `MembersAreInOrder`; `GroupsFollow`; `StagedOnce` |
| `MCEvents`, `MCEvents` | one of seven pages, 3 requests (4 for teams), 1 fault | `OrdersAreInOrder` (types; the WARNO is mailed once; FRAGOs are numbered without gap or repetition; answers stand); `GoingAreTold` (who is going has the order, and knows of a cancellation, but for lost mails and lost or dropped notices); `RowsAreInOrder`; `RotationIsFair`; `ScheduleIsInOrder`; `ConsoleIsInOrder` |
| `MCMembers`, `MCMembers` | the board (2 slots, 4 operations), one member's shops (4 requests), one member's training (3 requests) | `BoardIsInOrder` (types; no stage skipped); `AnnotationKeepsEdits`; `ShopsAreStaffed`; `TrainingIsInOrder` |
| `MCPortal`, `MCPortal` | 2 payments of 11 kinds in 2 slots; seven cases and three items at the S4 desk; announcements; a browser with 2 tabs | `PaymentsCountOnce` (types; effects once; credits match payments); `PaymentsAreAccounted` (truthful audit; no payment without a trace unless its handler was cut short); `DeskIsStraight`; `EverybodyIsTold`; `SessionsAreInOrder` |

### What the code does not keep

Each line is a definition of the module named, and can be seen to fail: name it
in the run's cfg in place of the properties there (a formula with `[][...]` as a
PROPERTY, without SYMMETRY) and change the constants as given. Lines in quotation
marks are what a docstring, a comment or a page says; the others are what a
reader would expect. They are kept as a starting point for whoever changes that
code, and because they mark what the passing properties must make an exception
of. Where a passing property has an exception, its counterpart here has none.

Recruiting and payments (`MCOnboarding`, `MCIntake`; `MCMembers` with
`Pages = {"board"}`; `MCPortal` with `Pages = {"payments"}`):

| property | what happens |
|---|---|
| `OneRecruitPerAccount` | two applicants of one name share one account (`recruit-daemon.py:2868`). `Cards <- MCCards`, `Users <- MCUsers`, `UserOf <- Same`, no crashes or edits |
| `WelcomeSentOnce` | a crash after the welcome email repeats it (comment at `recruit-daemon.py:2956`) |
| `MailedPasswordWorks` | the advance button mails a password that opens nothing (`s1_admin.py:1087`). `PortalCards = {c1}`, `MaxAttempts = 5`, no crashes or edits |
| `RemovalFromDeadLetterHolds` | a dead letter removed by hand is written back (`recruit-daemon.py:2753`) |
| `NoSilentHalfOnboarding` | with `lastLogin` unreadable a card is completed without groups and without a warning (`recruit-daemon.py:1763`). `Faults = {"lostReply", "lastLogin"}`, `MaxAttempts = 5`, no crashes or edits |
| `OnboardedAreMembers` | after a dry run the service skips a card whose recruit has no account (`recruit-daemon.py:2853`; "Don't create accounts or send emails") |
| `HalfOnboardedAlwaysTold` | groups and warning are two calls to one Nextcloud, and both fail (`recruit-daemon.py:2892`; 2887: "say so loudly") |
| `ChosenPasswordKept` | a password chosen between two requests is overwritten (`recruit-daemon.py:2872`) |
| `BlacklistedAlwaysTold` | the notice that the screen did not run is refused as well (`recruit-daemon.py:1491`; 1486: "make sure a human knows it wasn't checked") |
| `PaymentAskedOrTold` | a card with a bad address is recorded as handled though nobody could be told (`recruit-daemon.py:3186`) |
| `EverySubmissionHandled` | an address without coordinates blocks its card for ever (`recruit-daemon.py:922`) |
| `MovingBackRetriggers` | moving a corrected card back triggers no email (`recruit-daemon.py:3123`). `MaxEdits = 2` |
| `NotesDoNotMove` | a bounce warning moves a card back that S1 has advanced (`recruit-daemon.py:3104`). `MaxOps = 2` |
| `CreditedOnce` | a second completion credits the recruiter again (`s1_admin.py:584`). `Starts = {15}`, `MaxOps = 2` |
| `DeclinedLeaves` | a refused archive is reported as a decline (`s1_admin.py:1491`). `MaxOps = 2` |
| `ResumesWhereHeld` | a lost comment makes a resume forget the stage (`s1_admin.py:1365`). `MaxOps = 2` |
| `RecordedIsProcessed` | a crash loses a payment, because its redelivery is a duplicate (`paypal_webhook.py:458`) |
| `MealPaidOnce` | two payments settle one meal (`paypal_webhook.py:666`) |
| `NameOnlyReviewed` | with the board down a name settles a fee without review (`paypal_webhook.py:542`) |
| `AddressBeforeName` | a name match hides an address match (`paypal_webhook.py:215`) |

Elections and newsletter (`MCVoting`, `MCNewsletter`):

| property | what happens |
|---|---|
| `PhaseAdvances` | a stale request takes the election back a phase (`elections.py:261`) |
| `BallotsStand` | a decline commits after a ballot was cast for the nominee (`elections.py:669`) |
| `SnapshotKept` | the eligible count is taken again after ballots were cast (`elections.py:298`) |
| `QuorumMeansParticipation` | two of three voters meet a quorum of 75 percent (`elections.py:432`). `Members <- Three`, `Requests <- OneRequest` |
| `OneDelivery` | two deliveries read "scheduled" before either commits "sending". `Deliveries <- TwoDeliveries` |
| `SentIsMailed` | a save during a delivery makes "sent" speak of a text nobody got |
| `LoopMailsScheduled` | the loop mails an issue that was cancelled after its scan |
| `SendingEnds` | a restart leaves an issue "sending" for ever |
| `AttachmentsBounded` | two uploads at once pass the limit. `Attachments <- TwoAttachments` |

Members (`MCSeparation`, `MCRoster`, `MCAttendance`; `MCMembers` with `Pages =
{"shops"}` or `{"training"}`):

| property | what happens |
|---|---|
| `FlagsTruthful` | an `occ` that cannot be run reads like an empty answer. `MaxFailures = 2`, one request |
| `ReturnedLeavesGroup` | nobody who returns from leave is taken out of the leave group. `SeparationOps = {"leave"}`, one request, no fault |
| `ServingKeepTheirs` | the reconciler strips somebody reactivated after it made its list |
| `BlacklistHolds` | a second offboarding, or an overlapping reactivation, lifts a blacklisting |
| `ServingHaveAccounts` | a crash before the commit leaves a serving member without an account |
| `OneRowEach` (Attendance) | two scans of the QR code give two rows |
| `NoShowsAreAbsent` | a check-in leaves the no-show flag |
| `AttendanceLocked` | a stale page changes a finalized event |
| `AttendeesCredited` | reopening the event that credited first takes the credit from the other. `MaxActive = 1`, `AttendanceRequests = 6`, `MaxEdits = 0` |
| `CitationsFollowGrants`, `RevokedLoseCredit` | a later finalization, or a new title, leaves a citation or a credit behind |
| `OneLeaderAnyway`, `MovedFollowsToo`, `LeadersJoin` | a move by address brings two leaders together; no move leaves the old group ("so the two stay in step"); a desk promotion to NCO joins no leaders' group |
| `NobodyWithoutTeam`, `TeamsExist` | a renaming whose listing failed deletes a full group ("self-healing"); an old page brings the old name back |
| `PagesAreFresh` | an old page takes a promotion back |
| `StagedOnceAlways`, `OneStagedEach` | overlapping requests stage or finalize twice (`promotions.py:493`: "Update existing active staged row instead of duplicating") |
| `HoldsAlwaysKept` | a staged demotion is carried out as the promotion it has become. `TopRank = 3`, `Start <- SeniorAndRecruit`, `MaxActive = 1`, `MaxRequests = 4`, `MaxFaults = 0` |
| `RankGroupNeverDrifts` | a commit that fails leaves the group of the new rank |
| `SavingKeepsShops` | saving a profile drops a billet in a shop the page does not show (`member_edit.py:38`–`54`) |
| `AcceptedIsAlwaysHeld`, `GroupsAlwaysFollow` | an overlapping save or decision undoes an acceptance, or its group |
| `OneRecordEach`, `StarsAreAlwaysKept` | overlapping approvals record a thing twice; overlapping awards lose a device |
| `DeniedIsNotOnRecord`, `GrantsStand` | denying an approved claim leaves the record; revoking a claim takes a direct sign-off of the same item with it. `GrantsStand`: `TrainingRequests = 4`, `MaxDevices = 2` |
| `LicenceIsHeld`, `HighestLicence`, `PointsMatchProfile` | the licence class outlives a revoked certificate, and of two overlapping approvals the later one wins; the points leave out devices the profile shows. `HighestLicence`: `Certs = {"tech", "extra"}`, `Filed <- FiledTwo`, `MaxDevices = 2` |

Events (`MCEvents`, with `Pages` as given):

| page | property | what happens |
|---|---|---|
| `"orders"` | `CancelledStaysClosed` | a WARNO opens a cancelled event again ("disables RSVP") |
| | `OrderIssuedOnce`, `ReviewPublishedOnce`, `OneSubmissionShown` | two overlapping requests issue the order (`events.py:3203`: "one-shot"), publish the review (`events.py:4198`) or leave two sheets |
| | `OneRowEach` | two page loads give a newcomer two rows, after which every answer fails |
| | `OverriddenHaveOrders`, `LateHaveOrders` | who is set to attending by S3, or answers while the order is issued, is not sent it |
| | `GoingAlwaysHaveOrders` | a mail of the order that is refused is not sent again (`events.py:3365`) |
| | `GoingAlwaysKnow` | two occurrences of one title cancelled within a minute: the second notice is dropped (`notifications.py:207`; `events.py:2470`: "Affected members and command/S3 have been notified") |
| | `AnsweredIsPreserved` | a page load removes an answer given meanwhile |
| `"series"` | `DeletedStaysGone`, `RangeTakesPlace`, `OneOccurrenceAlways` | a pull of the calendar brings a deleted event back; a range that is narrowed and widened again leaves its occurrences cancelled; two extensions meet on a day |
| | `ContentsAlwaysAgree` | a pull of the calendar writes place and description over those edited for the whole series (`events.py:994`) |
| | `CadenceIsTheRule` | a series on the third of the month skips a month of two days when it is made, and is put on its last day when it is extended. `Kinds <- BothKinds`, `Ends = {6, 8}`, `MaxCount = 3` |
| | `WeeklyStays` | a weekly series that has lost its master, with occurrences a month apart, is taken for a monthly one. `Before = <<0, 4, 8, 12>>`, `Period = 2`, `Slack = 0`, `MaxCount = 4`, `Ids = 1..5`, `Ends = {8}`, `MaxRequests = 3` |
| `"rotation"` | `LatestWaitLongest` | the latest teacher is the first in turn ("should wait longest", `instructor_rotation.py:76`) |
| | `PlansAreAlwaysFair`, `AssignedAreHistory` | with leave, or with later occurrences assigned, somebody teaches twice first |
| | `HandsAlwaysStand`, `PlansAreForTheFuture` | a plan applied late overwrites an assignment, or a past occurrence |
| `"schedule"` | `ChangesAreSorted`, `AddsAreSorted` | a changed time, or two blocks added at once, stand out of order. Both: `BlockIds = {1, 2, 3, 4}`, `EventDays = {1}`, `Times = {1, 2, 3, 4}`, `MaxActive = 3`, `MaxRequests = 5` |
| `"guard"` | `ImmunesAreAlwaysSpared`, `AutoGuardsAlwaysOnce`, `SlotsAreAlwaysOne` | an exemption given meanwhile is not seen; two dealings give two guards; two configurations give two slots of one number |
| | `GuardsReconfigure` | a slot with a guard cannot be deleted (`ops_console.py:854`) |
| | `GuardsAreEven` | each dealing begins at the first slot again, whoever stands guard there (`ops_console.py:977`: "evenly") |
| `"duty"`, `"teams"` | `DutyIsForThePresent`, `BuddiesAreReciprocal` | who checks out stays on duty; a triple of buddies (`models/events.py:326`: "reciprocal") |

Portal (`MCPortal`, with `Pages` as given):

| page | property | what happens |
|---|---|---|
| `"supplies"` | `OneItemEach`, `ShelfIsTrue`, `RetiredStays` | two overlapping requests book a delivery twice, or hand an item out twice; an item that is out can be retired |
| | `CommandIsTold` | the approvers are found by splitting a JSON list at its commas (`s4_admin.py:195`) |
| `"notices"` | `NoneEverDangle`, `EditedStandOnceAlways`, `LastAnnouncedIsTheLevel` | two overlapping edits |
| | `LevelsAlwaysTold` | the database fails to ring the bell after the level is committed, which is only logged (`announcements.py:331`) |
| | `EditsKeep`, `FailedAreNotPosted` | an edit whose second half is refused deletes the announcement; a lost answer is reported as a failure |
| `"signins"` | `GrantsAreAccepted` | of two tabs only the later grant is accepted (`routes/auth.py:36`: "exactly one /authorize") |
| | `VerifiedFirst` | another member who signs in on the same browser inherits the mark that the contact details were verified. `Accounts = {"a", "b"}`, `MaxChanges = 0`, `MaxFaults = 0`, `SignInAsks = 3`, `SignInTime = 1` |
| `"sessions"` | `SignedOutAlwaysStays`, `StoredRolesFollow` | a response that was under way restores the cookie; the stored roles are those of the last sign-in |

Where the table says nothing of the constants the ones in the cfg do; a smaller
`MaxRequests` or `MaxFaults` finds most of them sooner.

### Bounds, and why they are enough

One card of the onboarding is checked: the cards of a poll share one memory and
one save, but nothing is read of another card's part, and the theorems on the
roster and the passwords hold for any number. Two attempts
(`MAX_ONBOARD_ATTEMPTS` is 5) let a failure be both the last and not the last.
Two crashes let one strike during the recovery from the other. Three cards of one
submission leave room for one made after a crash and one after a lost reply. Two
requests are enough for a race of two transactions, each of which reads and
commits once; no property of an election counts more than two. Two payments and
two slots give overlapping deliveries of one payment as well as of two; prices
and amounts are the real ones, so that the ranges are exact. Four operations on
the board let a hold, a lost comment, a resume and one more interleave.

In the portal's modules two requests overlap (`MaxActive = 2`) and a third or
fourth comes before, between or after them: one to make the situation, two to race
in it, or a history of do, undo and do again. Attendance has four, because a
credit takes a check-in, a finalization and a reopening; shops four, for two
requests to join and their decisions; teams and announcements four, because an
edit is two acts. Four were explored for the S4 desk as well, with the same
result, and are too many for every day. Two FTXs let a credit or a ribbon given by
one be taken by the other, which is where the code is intricate; one member is
enough, since nothing there counts across members. Two ranks with the NCO's as the
upper cross the boundary at which groups and titles change. Months of three, two
and four days have a day that not every month has. Two contents of a series
(`MaxTexts`, beside those of the calendar) are the ones it is made with and those
of one edit; the calendar has entries on two days, one on which the series has an
occurrence and one on which it has not. One fault in a history covers every single
failure at every point, not combinations of failures (a crash or a restart may
join it where a module has both).

`CHECK_DEADLOCK FALSE` is given where a history really ends, because its counter
of requests or its clock has run out; the daemons' runs check for deadlock.

### Fairness

`FairSpec` of the two daemon modules asks for weak fairness of the daemon as a
whole: systemd restarts it, its loop never ends, its Nextcloud calls have
timeouts, and a step that hangs is ended by the watchdog, which is a crash
followed by a restart. Nothing is asked of the people, and of the network only that
a poll whose list of cards fails, which ends it unchanged, is not every poll. In
`MCOnboardingLive` a fault may occur for ever, so it checks that retrying *ends*,
not that it succeeds; in the other runs faults run out, which is the only way in
which a retry can succeed.

`Elections` advances its phase only when somebody looks: its `FairSpec` assumes
that time passes, that a request that has begun is served, and, as an assumption
about the members and not about the code, that the page is looked at again and
again.

`Newsletter` asks that time passes, that the loop scans and goes on to what it has
found (`asyncio` runs a loop that catches every exception), and that a delivery
that has begun goes on. A restart ends deliveries for good, which is why
`DueIsHandled` speaks of what is due, not of what is being sent. `Separation` asks
weak fairness of the two scripts, which systemd timers start; nothing is asked of
S1 or of the portal.

## 4. What is proved

For every value of the constants (any number of cards, members, requests, and no
bound on crashes or edits other than the constants):

* `RecruitOnboarding_proofs`
  * `TypeOKCorrect`.
  * `RosterFirst`: `[]CredentialsAfterRoster`. Inductive invariant `RosterInv`: from
    the step after the insert on, the card in hand is enrolled, and every card that
    was welcomed, completed or recorded as onboarded by another than a dry run is
    enrolled. Accounts and rows are never removed by the model (`EnrolmentKept`).
  * `MailedPasswordWorksCorrect`, assuming `PortalCards = {}`. Invariant
    `PasswordInv`: with `pc` at "mail", the password in hand is current unless the
    welcome is not needed. The assumption is necessary: see `MailedPasswordWorks`
    in the table above.
  * `OnboardedCanLogInCorrect`, assuming moreover that user names differ and that
    `lastLogin` is readable; the cards a dry run has recorded are outside it.
  * `NoSilentHalfOnboardingCorrect`, from the same assumptions and `GroupsInv`: once
    a card is past its groups, has been mailed to, or is recorded as onboarded, its
    groups are there or a warning has been sent, which S1 has unless Talk refused it;
    and no step takes any of this back.
* `Elections_proofs`
  * `TypeOKCorrect`, `BallotsForCandidatesCorrect` (a vote in hand names somebody
    who had accepted, and no step makes an answered nomination pending).
  * `ImplementsBallotBox`: every initial state maps to one, every step to a vote or
    to a stutter, because the UNIQUE constraint is checked in the commit.
  * `BallotsMatchRollCorrect`, by counting along `CommitVote`.
  * `NominationsMatchReceiptsCorrect`.
* `RecruitIntake_proofs`: `TypeOKCorrect`, and three invariants, one for each property.
  * `BlacklistedNeverSilentlyCorrect` from `ScreenInv`: S1 has been sent word already,
    and has it unless Talk refused, when a blacklisted submission is past the screen
    and in hand.
  * `NoLostApplicationCorrect` from `KeptInv`: the submission that is about to be
    confirmed is settled too, and no step takes back what settles one
    (`NothingTakenBack`), so that a crash before the save loses nothing.
    `ApplicationsAreKeptCorrect` puts it together with the next one.
  * `RepeatedOnlyWhenLostCorrect` from `CountInv`: a submission that the daemon does not
    remember as posted has at most `crashes + lost` cards, any other one more, and
    the same of a card's payment mails.
* `MCMembers_proofs`, for `MCMembers`, whose steps on a page are steps of its component
  * `BoardIsInOrderCorrect` and `AnnotationKeepsEditsCorrect` (and `NoStageSkippedCorrect`,
    for `PipelineBoard` alone) from `BoardInv`: a PUT in flight aims at a stage whose
    predecessors the card has been in, and whoever still has the card's ETag has the
    card as it is.
  * `ShopsAreStaffedCorrect` from `ShopInv` (in `Shops`): unless somebody crossed it, what
    a request has read of a shop still holds, so that what it commits is what the
    steps before it made of the groups.
  * `TrainingIsInOrderCorrect` from `TrainingInv` (in `Training`): every approved claim and
    every grant has its record, and a request in progress that will write one has
    read the record as it is.
  * `RecordsAgreeCorrect` and `AwardsMatchGrantsCorrect` from `AttendanceInv` (in
    `Attendance`), which is `RecordInv` and `HonourInv`. Two requests that count one
    member's attendance at once have put the member into `crossed` (`CrossInv`); for
    anybody else what a request has counted is what a count would give now
    (`CountInv`), since whoever changes a row is counting too or waits for its lock.
    The credits, the counts and the rows taken off the record follow from that at each
    commit. Of the ribbons: one finalization at most holds an event, and two requests
    that reopen it clash (`EventInv`); who decorates or undoes has the ribbon, and the
    number of the other grants, as they are (`RibbonInv`). That no count of devices
    passes its bound, and that a row to be added finds a place, is by counting the
    requests (`BoundInv`).
  * `SeparationsAreInOrderCorrect`, of `MCSeparation`, from `SeparationInv` (in
    `Separation`). `NothingHidden` is not inductive: a member without leftovers may have
    an account that can still be used, and a log that says all is done. `Shown` asks of
    whoever is not shown as unresolved that nothing is left *and* that nobody can log
    in; a visit of the reconciler may only leave such a log (`VisitInv`), and one that
    fails gives back what it had forgotten to `regained`. Of the leaves: a mail is owed
    for each member on leave whom the runner has not come to, and mails sent and owed
    are at most the leaves granted (`ReturnInv`).
* `MCPortal_proofs`
  * `TypeOKCorrect`, the types of `PaypalWebhook`.
  * `SideEffectsOnceCorrect`, `CreditsMatchPaymentsCorrect` and
    `AuditTruthfulCorrect` from `SafeInv`. `Alone`: the row of a payment belongs to
    one delivery at a time. `StageInv`: what that delivery has done for the payment
    at each of its steps, as counts of postings, credits and mails. `TxnInv`: what is
    true of every payment at any time, also of one whose delivery has crashed. The
    first is what makes the second hold: nobody else changes those counts.
  * `PaymentsTracedCorrect` from `TracedInv`, assuming `MaxFaults <= 1`. With two faults
    the notification of a payment and the update of its outcome can both fail, and
    then nothing tells of it.
  * `PaymentsCountOnceCorrect` and, with the same assumption,
    `PaymentsAreAccountedCorrect`: the same of `PortalSpec`, whose steps on the
    payments page are those of `PaypalWebhook` and on another page leave it alone.
  * `DeskIsStraightCorrect` from `DeskInv` (in `Logistics`): by the kind of a case, which
    statuses it can have been through and which buttons some page can therefore
    still show; and what a request in progress has read of its case and its items.
  * `EverybodyIsToldCorrect` from `BroadcastInv` (in `Broadcast`): between the steps of an
    edit or a deletion, where an announcement can be (table, bell, Talk), unless two
    requests about it overlapped; and each that is announced rings, unless the database
    failed to ring it.
  * `SessionsAreInOrderCorrect` from `SessionInv` (in `Sessions`): of every session that
    the browser or a tab has, the sign-in in flight has its state in it, and its roles
    are those of the groups or older than the last change of them (`CookieInv`); and while
    requests do not overlap, of the only one under way, whose tab can be granted what
    (`AloneInv`), and that nobody is signed in any more who left (`LeftInv`). That a
    state is crowded out by newer ones only is an argument about counting
    (`PrunedKept`). The freshness of roles does not need that requests do not overlap,
    and the property no longer supposes it.
* `MCEvents_proofs`
  * `OrdersAreInOrderCorrect` and `GoingAreToldCorrect` from `OrdersInv` (in
    `EventOrders`): at most one request holds the row of the event; the number of the
    FRAGO in hand is that of the next one; who has an order, has lost it, or is still
    to get one, are together all who are going, and so with a cancellation. Crashes are
    no exception: what they lose is in `unmailed` and `unnoticed`.
  * `ScheduleIsInOrderCorrect` from `ScheduleInv` (in `ScheduleBuilder`): what an addition
    has read still stands where nobody crossed it, and the numbers it will write are
    in the order of the times, since each is the count of the blocks before it.
  * `ConsoleIsInOrderCorrect` from `ConsoleInv` (in `OpsConsole`): whom a request in
    progress takes has not come to be exempt meanwhile unless crossed, the slots a
    configuration will make are in nobody's hand yet, and dealing is even because it
    is in turn: the numbers of guards of two slots differ by at most one
    (`TurnsAreEven`, `DealtAreEven`).
  * `RowsAreInOrderCorrect` from `SeriesInv` (in `EventSeries`): what a request in
    progress will do with the rows it has read (`PlanInv`, `WideInv`, `RecurInv`,
    `SyncInv`), and what has become of those rows since (`SinceInv`): a row that came,
    went or changed meanwhile is the work of a request of a kind that then stands in
    `crossed`, and for the overlaps that a part does not except there is no such kind.
    The rows a commit adds get places of their own (`PlacesAre`), which is an argument
    about counting.

* `Roster_proofs`, all three from one invariant, `RosterInv` (`RosterInvCorrect`)
  * `MembersAreInOrderCorrect`, `GroupsFollowCorrect` and `StagedOnceCorrect`. None of
    the properties is inductive: each speaks of the records, and what a commit will
    make of them is in the hands of requests. `RosterInv` therefore says what a
    request of each kind looks like at each step (`Shape`), that no member outside
    `crossed` is read by two (`AloneInv`), that the copy a request has is the record
    (`CopyInv`), and with that what it will write. Then: the log in hand leads from
    the rank read to the rank to be written (`ChainInv`, `WriteShape`); a staged
    change somebody deals with is still staged (`StageInv`); who is about to save a
    leader has the other leaders of the team in hand, and of two who are, one did
    not ask (`TitleInv`); a group in Nextcloud is the record's, or is already that of
    the request that will write it (`RankGroupInv`, `TeamGroupInv`, `LeadersInv`), for
    teams also between the two steps of a renaming.

* `Newsletter_proofs`: `IssuesAreInOrderCorrect`, put together from four
  invariants, two of which rest on a fifth, `KnownInv`: an id is used once, so that
  a delivery that has outlived its issue is not of a later one.
  * `SendingIsInHandCorrect` from `SendingInv`: one of the deliveries that have
    claimed the issue will change the status when it records its result, since it
    has not read that result as the status it finds.
  * `NoUnaskedMailCorrect` from `AskInv`, by counting: the mails sent, the deliveries
    before theirs and what the loop mails or may mail are together at most what
    was asked for. The loop's part needs that it has no issue both in its scan and
    in hand.
  * `SentWasMailedCorrect` from `TextInv`: the row has the text that the deliveries
    of it have read, unless a save overlapped them.
  * `AttachmentsMailedCorrect` from `AttachInv`: a file is on disk or its removal was
    asked for, from the commit of its row until it is mailed.

Assumptions on the constants are the named `ASSUME`s of the modules, which TLC
evaluates in every run of them. A component that is only ever instantiated states
its assumptions as `Sound`, and the MC module assumes that (`SuppliesAssumption`,
`ConsoleAssumption`, ...): bounds are numbers, sets are finite, what something is
called is not also the name of something else, and the situation a history starts
from is one the code can have made.

Some of the proofs found what TLC's bounds had hidden. `ScheduleIsInOrder` was not
inductive: an update that is under way while all blocks of its day are moved
elsewhere writes a day that nobody else had in view. It takes seven requests and
three days, which TLC then confirmed, and is the reason for `Strayed`.
`RangeHolds` did not hold of every calendar: a weekly series whose master was deleted
can be taken for a monthly one (`WeeklyStays`), so that it is about the cadence that
was used; and a number of a row given again while a request had read the old one
made rows change hands, which the database rules out. `OneLeader` did not hold of
histories longer than those explored: a page opened before a renaming brings the old
team name back, and a second renaming takes that name up again, with the leader
under it. Those members are in `unguarded` now (`BeginRename`).

Only model-checked: of the safety properties `RotationIsFair`. A plan of the rotation
is a function defined by recursion over the occurrences, and what it computes needs
induction over data, which is out of the prover's reach, as are liveness under
fairness and `ENABLED`.

## 5. What is not modelled, and the plan

Not modelled by design:

* wording and layout of mails and pages, signature verification and
  authorisation (a request that is not allowed changes nothing; the roles a
  session carries are in `Sessions`), the daemon's self-check, parsing of forms;
* files: uploads and archives are written once, under names of their own, and
  nothing decides by their contents (the newsletter's attachments, which something
  does decide by, are modelled);
* S2 intelligence, notes and counselling: records that one person writes and others read;
* geography and addresses: a function of a postal code and tables;
* feedback: one card per message, posted once and forgotten;
* configuration and read caches with a time to live: each is a copy that is
  reread when old, and what its age means is in `Sessions` where it matters;
* migrations and maintenance scripts: run once by hand; the schema they leave is
  what the UNIQUE constraints in the modules come from;
* the other projects in the repository, which share nothing with this one.

`state.json` is written atomically in the model. A restart of the portal ends its
handlers: that is a crash in `PaypalWebhook`, an `Abandon` in `PipelineBoard`, a
fault in the other modules; elections are transactional, so that a restart drops a
request, which their requests may also do at any read.

What is left, in this order:

1. `RecruiterLoad`: assignment, credit, release and recomputation of
   `current_load` against the true count;
2. the parts listed as left out under the modules above, first the FRAGO mails
   and their count, assistant leaders, and the Talk rooms of teams;
3. combinations of two faults, where the state space allows.
