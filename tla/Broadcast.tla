------------------------------ MODULE Broadcast ------------------------------
(***************************************************************************)
(* What is told to everybody: announcements, kept in Nextcloud's           *)
(* Announcement Center (app/routes/announcements.py), the threat level     *)
(* (app/routes/tlas.py), and the bell of the portal                        *)
(* (app/routes/notifications.py), seen by one member.  A request talks to  *)
(* Nextcloud in steps; each may be refused, or done and its answer lost.   *)
(***************************************************************************)
EXTENDS Integers

CONSTANTS
  AnnIds,        \* the numbers Nextcloud gives announcements, 1..n
  MaxActive,     \* bound on the requests in progress at once
  MaxRequests,   \* bound on the requests begun
  MaxFaults      \* bound on refusals, lost answers and restarts

VARIABLES
  ann,      \* the announcements Nextcloud has numbered: number -> [topic, version]
  removed,  \* those deleted again
  level,    \* the request that set the threat level last, 0 at first
  bell,     \* the member's notifications
  req,      \* the requests in progress
  begun, faults,
  ended,    \* history: requests that were answered as done
  failed,   \* history: topics a fault was about
  crossed,  \* history: topics of two requests at once, or of a page grown stale
  dropped,  \* history: topics deleted or edited
  unrung,   \* history: topics the database did not put in the bell
  levels    \* history: the topics that were levels

vars == <<ann, removed, level, bell, req, begun, faults, ended, failed, crossed, dropped,
          unrung, levels>>
hist == <<ended, dropped, unrung, levels>>

\* A topic is what a posting or a level was about: the number of its request.
Topics == 1..MaxRequests
Slots == 1..MaxActive
NoAnn == [topic |-> 0, version |-> 0]
NoRequest == [pc |-> "none", topic |-> 0]
Numbered == {a \in AnnIds : ann[a] # NoAnn}
Standing == Numbered \ removed
\* The number Nextcloud gives next, none when they are used up.
NextNumber == {n \in AnnIds \ Numbered : \A a \in AnnIds : a < n => a \in Numbered}
About(t) == {a \in Standing : ann[a].topic = t}

\* Types; only one notification is about a topic and a number.
TypeOK ==
  /\ \A a \in Numbered : ann[a] \in [topic : Topics, version : 0..MaxRequests]
  /\ \A b \in bell : b \in [topic : Topics, source : AnnIds \cup {0}, read : BOOLEAN]
  /\ level \in 0..MaxRequests /\ begun \in 0..MaxRequests /\ faults \in 0..MaxFaults
  /\ ended \subseteq Topics /\ removed \subseteq Numbered

Init ==
  /\ ann = [a \in AnnIds |-> NoAnn] /\ removed = {} /\ level = 0 /\ bell = {}
  /\ req = [r \in Slots |-> NoRequest] /\ begun = 0 /\ faults = 0
  /\ ended = {} /\ failed = {} /\ crossed = {} /\ dropped = {} /\ unrung = {}
  /\ levels = {}

\* Levels are one topic for the overlaps, told as 0.
Touched(q) == IF q.pc = "none" THEN {} ELSE IF q.op = "level" THEN {0, q.topic} ELSE {q.topic}
Begin(request) ==
  /\ begun < MaxRequests /\ begun' = begun + 1
  /\ \E r \in Slots :
       /\ req[r] = NoRequest /\ \A q \in Slots : q < r => req[q] # NoRequest
       /\ req' = [req EXCEPT ![r] = request]
       /\ crossed' = crossed \cup (Touched(request) \cap UNION {Touched(req[q]) : q \in Slots \ {r}})
                             \cup (IF request.number \in removed THEN {request.topic} ELSE {})
Goto(r, pc) == req' = [req EXCEPT ![r].pc = pc]
End(r) == req' = [req EXCEPT ![r] = NoRequest]
Fault(t) == faults < MaxFaults /\ faults' = faults + 1 /\ failed' = failed \cup {t}
Put(n, topic, version) == ann' = [ann EXCEPT ![n] = [topic |-> topic, version |-> version]]

-----------------------------------------------------------------------------
\* post_announcement.
Post ==
  /\ Begin([pc |-> "post", op |-> "post", topic |-> begun + 1, number |-> 0])
  /\ UNCHANGED <<ann, removed, level, bell, faults, failed, hist>>
\* set_threat_level: the level is committed before it is told.
SetLevel ==
  /\ Begin([pc |-> "post", op |-> "level", topic |-> begun + 1, number |-> 0])
  /\ level' = begun + 1 /\ levels' = levels \cup {begun + 1}
  /\ UNCHANGED <<ann, removed, bell, faults, failed, ended, dropped, unrung>>

\* The announcement is created; Nextcloud's number for it may not be read.
Create(r) ==
  LET q == req[r] IN
  /\ q.pc = "post" /\ q.op \in {"post", "level"}
  /\ \E n \in NextNumber, known \in BOOLEAN :
       /\ Put(n, q.topic, 0)
       /\ IF known THEN UNCHANGED <<faults, failed>> ELSE Fault(q.topic)
       /\ req' = [req EXCEPT ![r].pc = "bell", ![r].number = IF known THEN n ELSE 0]
  /\ UNCHANGED <<removed, level, bell, begun, crossed, hist>>

\* Mutant: a level that could not be announced is not told otherwise.
Untold(q) == "none"
\* A refusal ends a posting; a level falls back on the bell alone.
AfterRefusal(q) == IF q.op = "level" THEN "bell" ELSE "none"
\* Refused, or created and the answer lost.
CreateFails(r) ==
  LET q == req[r]
      next == AfterRefusal(q) IN
  /\ q.pc = "post" /\ q.op \in {"post", "level"} /\ Fault(q.topic)
  /\ (UNCHANGED ann) \/ (\E n \in NextNumber : Put(n, q.topic, 0))
  /\ IF next = "none" THEN End(r) ELSE Goto(r, next)
  /\ UNCHANGED <<removed, level, bell, begun, crossed, hist>>

\* Mutant: notifications do not name the announcement they are about.
Unsourced(q) == 0
Source(q) == q.number
\* create_notification_for_all: no look for one already there.
Ring(r) ==
  LET q == req[r] IN
  /\ q.pc = "bell"
  /\ bell' = bell \cup {[topic |-> q.topic, source |-> Source(q), read |-> FALSE]}
  /\ ended' = ended \cup {q.topic} /\ End(r)
  /\ UNCHANGED <<ann, removed, level, begun, faults, failed, crossed, dropped, unrung, levels>>
\* The database fails: it is only logged, and the posting is answered as done.
RingFails(r) ==
  LET q == req[r] IN
  /\ q.pc = "bell" /\ unrung' = unrung \cup {q.topic}
  /\ ended' = ended \cup {q.topic} /\ End(r)
  /\ UNCHANGED <<ann, removed, level, bell, begun, faults, failed, crossed, dropped, levels>>

-----------------------------------------------------------------------------
\* delete_announcement, and the first half of edit_announcement.
Delete(a) ==
  /\ a \in Numbered
  /\ Begin([pc |-> "remove", op |-> "delete", topic |-> ann[a].topic, number |-> a])
  /\ UNCHANGED <<ann, removed, level, bell, faults, failed, hist>>
Edit(a) ==
  /\ a \in Numbered
  /\ Begin([pc |-> "remove", op |-> "edit", topic |-> ann[a].topic, number |-> a, version |-> begun + 1])
  /\ UNCHANGED <<ann, removed, level, bell, faults, failed, hist>>

\* A removal that finds nothing is refused: it ends a deletion, an edit does
\* not look at the answer.
Remove(r) ==
  LET q == req[r]
      there == q.number \in Standing IN
  /\ q.pc = "remove" /\ removed' = removed \cup {q.number}
  /\ CASE q.op = "edit" -> Goto(r, "repost")
       [] there -> Goto(r, "purge")
       [] OTHER -> End(r)
  /\ dropped' = dropped \cup {q.topic}
  /\ UNCHANGED <<ann, level, bell, begun, faults, ended, failed, crossed, unrung, levels>>
\* Refused, or done or not and no answer; an edit goes on after a refusal.
RemoveFails(r) ==
  LET q == req[r] IN
  /\ q.pc = "remove" /\ q.number \in Standing /\ Fault(q.topic)
  /\ \/ UNCHANGED removed /\ q.op = "edit" /\ Goto(r, "repost")
     \/ removed' \in {removed, removed \cup {q.number}} /\ End(r)
  /\ dropped' = dropped \cup {q.topic}
  /\ UNCHANGED <<ann, level, bell, begun, ended, crossed, unrung, levels>>

\* Mutant: the repost keeps the version it replaces.
OldVersion(q) == 0
NewVersion(q) == q.version
Repost(r) ==
  LET q == req[r] IN
  /\ q.pc = "repost" /\ (\E n \in NextNumber : Put(n, q.topic, NewVersion(q)))
  /\ Goto(r, "purge")
  /\ UNCHANGED <<removed, level, bell, begun, faults, failed, crossed, hist>>
\* Refused: the edit goes on to its purge.  No answer, posted or not: it ends.
RepostFails(r) ==
  LET q == req[r] IN
  /\ q.pc = "repost" /\ Fault(q.topic)
  /\ \/ UNCHANGED ann /\ (Goto(r, "purge") \/ End(r))
     \/ (\E n \in NextNumber : Put(n, q.topic, NewVersion(q))) /\ End(r)
  /\ UNCHANGED <<removed, level, bell, begun, crossed, hist>>

\* Mutant: the notifications about other announcements are purged as well.
PurgesAll(q) == bell
\* delete_notifications_by_source.
Purged(q) == {b \in bell : b.source = q.number}
Purge(r) ==
  LET q == req[r] IN
  /\ q.pc = "purge" /\ bell' = bell \ Purged(q) /\ End(r)
  /\ UNCHANGED <<ann, removed, level, begun, faults, failed, crossed, hist>>
\* The database fails: it is only logged.
PurgeFails(r) ==
  LET q == req[r] IN
  /\ q.pc = "purge" /\ Fault(q.topic) /\ End(r)
  /\ UNCHANGED <<ann, removed, level, bell, begun, crossed, hist>>

\* mark_read and mark_all_read.
Read(seen) ==
  /\ seen # {} /\ seen \subseteq {b \in bell : ~b.read}
  /\ bell' = (bell \ seen) \cup {[b EXCEPT !.read = TRUE] : b \in seen}
  /\ UNCHANGED <<ann, removed, level, req, begun, faults, failed, crossed, hist>>

\* A restart ends the requests.
Crash ==
  /\ \E r \in Slots : req[r] # NoRequest
  /\ faults < MaxFaults /\ faults' = faults + 1
  /\ failed' = failed \cup UNION {Touched(req[r]) : r \in Slots}
  /\ req' = [r \in Slots |-> NoRequest]
  /\ UNCHANGED <<ann, removed, level, bell, begun, crossed, hist>>

Next ==
  \/ Post \/ SetLevel
  \/ \E a \in AnnIds : Delete(a) \/ Edit(a)
  \/ \E r \in Slots : \/ Create(r) \/ CreateFails(r) \/ Ring(r) \/ RingFails(r)
                      \/ Remove(r) \/ RemoveFails(r)
                      \/ Repost(r) \/ RepostFails(r) \/ Purge(r) \/ PurgeFails(r)
  \/ \E seen \in {{b} : b \in bell} \cup {{b \in bell : ~b.read}} : Read(seen)
  \/ Crash
Spec == Init /\ [][Next]_vars

-----------------------------------------------------------------------------
Quiet == \A r \in Slots : req[r] = NoRequest
Unharmed(t) == t \notin failed \cup crossed

\* Every threat level is told to the member once, whatever Nextcloud answers,
\* unless the portal is restarted on the way or its database fails ("Never
\* let broadcast failure block the level change; fall back to the in-portal
\* notification alone").
LevelsAreTold ==
  Quiet /\ 0 \notin failed => \A t \in levels \ (dropped \cup unrung) : \E b \in bell : {x \in bell : x.topic = t} = {b}

\* An announcement that was answered as posted rings the bell until it is
\* deleted or edited, unless the database failed to ring it.
PostedAreTold == \A t \in ended \ (dropped \cup unrung) : \E b \in bell : b.topic = t

\* "without it every member keeps a bell entry that points at a gone
\* announcement": no notification is left of one deleted or edited.
NoneDangle ==
  Quiet => \A b \in bell : Unharmed(b.topic) => b.source \in About(b.topic)

\* An announcement that was edited stands once, as edited last.
EditedStandOnce ==
  Quiet => \A a \in Standing : Unharmed(ann[a].topic) =>
             /\ About(ann[a].topic) = {a}
             /\ ann[a].topic \in dropped => ann[a].version # 0

\* Everybody is told: the parts above, which the README explains.
EverybodyIsTold == TypeOK /\ LevelsAreTold /\ PostedAreTold /\ NoneDangle /\ EditedStandOnce

-----------------------------------------------------------------------------
(* Why everybody is told: the inductive invariant. *)

\* The constants.
Sound == AnnIds \subseteq Nat \ {0} /\ MaxRequests \in Nat /\ MaxFaults \in Nat

\* What a request in progress is, by what it does next.
Postings == [pc : {"post"}, op : {"post", "level"}, topic : Topics, number : {0}]
              \cup [pc : {"bell"}, op : {"post", "level"}, topic : Topics, number : AnnIds \cup {0}]
Deletions == [pc : {"remove", "purge"}, op : {"delete"}, topic : Topics, number : AnnIds]
Edits == [pc : {"remove", "repost", "purge"}, op : {"edit"}, topic : Topics, number : AnnIds,
          version : Topics]
Requests == Postings \cup Deletions \cup Edits

TypeInv ==
  /\ TypeOK
  /\ ann \in [AnnIds -> [topic : Topics, version : 0..MaxRequests] \cup {NoAnn}]
  /\ req \in [Slots -> Requests \cup {NoRequest}]

\* A topic nobody began yet is nowhere.
Unused(t) ==
  /\ \A a \in Numbered : ann[a].topic # t
  /\ \A b \in bell : b.topic # t
  /\ \A r \in Slots : req[r].topic # t
  /\ t \notin dropped \cup unrung \cup levels \cup ended

\* A request and a notification have the number of an announcement of their topic.
Of(n, t) == n \in Numbered /\ ann[n].topic = t
RequestInv(q) ==
  /\ q.pc # "none" /\ q.number # 0 => Of(q.number, q.topic)
  /\ q.pc \in {"repost", "purge"} => q.topic \in dropped
BellInv == \A b \in bell : b.source # 0 => Of(b.source, b.topic)

\* Two requests about one topic have crossed; and each topic is posted once.
Tells(q) == q.pc \in {"post", "bell"}
CrossInv ==
  \A r, s \in Slots : r # s =>
    /\ Touched(req[r]) \cap Touched(req[s]) \subseteq crossed
    /\ Tells(req[r]) /\ Tells(req[s]) => req[r].topic # req[s].topic

\* How far a request that nothing harmed has come with its topic.
Bells(t) == {b \in bell : b.topic = t}
Stage(q) ==
  LET t == q.topic IN
  /\ q.pc \in {"post", "bell"} => Bells(t) = {} /\ t \notin dropped
  /\ q.pc \in {"remove", "repost", "purge"} => \A b \in Bells(t) : b.source = q.number
  /\ q.pc \in {"post", "repost"} => About(t) = {}
  /\ q.pc \in {"bell", "remove"} => About(t) = {q.number}
  /\ q.pc = "purge" => \A a \in About(t) : ann[a].version # 0 /\ About(t) = {a}
\* A topic nobody is busy with.
Settled(t) ==
  /\ \A b \in Bells(t) : b.source \in About(t)
  /\ \A a \in About(t) : About(t) = {a} /\ (t \in dropped => ann[a].version # 0)
TopicInv(t) ==
  Unharmed(t) =>
    /\ \A r \in Slots : req[r].topic = t => Stage(req[r])
    /\ (\A r \in Slots : req[r].topic # t) => Settled(t)

\* A level is being told, or was told once.
LevelInv(t) ==
  \/ /\ Bells(t) = {}
     /\ \E r \in Slots : Tells(req[r]) /\ req[r].op = "level" /\ req[r].topic = t
  \/ /\ \E b \in bell : Bells(t) = {b}
     /\ \A r \in Slots : Tells(req[r]) => req[r].topic # t

BroadcastInv ==
  /\ TypeInv /\ BellInv /\ CrossInv
  /\ \A r \in Slots : RequestInv(req[r])
  /\ \A t \in Topics : TopicInv(t) /\ (begun < t => Unused(t))
  /\ 0 \notin failed => \A t \in levels \ (dropped \cup unrung) : LevelInv(t)
  /\ levels \subseteq Topics
  /\ PostedAreTold

-----------------------------------------------------------------------------
(* What the code does not keep. *)

\* No notification points at an announcement that is gone, whatever overlapped.
NoneEverDangle == Quiet /\ faults = 0 => \A b \in bell : b.source # 0 => b.source \in Standing

\* An edit answered as done leaves the announcement: its answers from
\* Nextcloud are not looked at.
EditsKeep == \A r \in Slots : req[r].pc = "purge" /\ req[r].op = "edit" => About(req[r].topic) # {}

\* An announcement stands once even when two edits overlap.
EditedStandOnceAlways == Quiet /\ faults = 0 => \A a \in Standing : About(ann[a].topic) = {a}

\* A posting that failed was not posted: it may be tried again.
FailedAreNotPosted == Quiet => \A a \in Standing : ann[a].topic \in ended

\* Every level is in the bell, whatever fails: not when the database fails after
\* the level is committed, which nobody is shown.
LevelsAlwaysTold ==
  Quiet /\ 0 \notin failed => \A t \in levels \ dropped : \E b \in bell : b.topic = t

\* The level announced last is the level.
LastAnnouncedIsTheLevel ==
  Quiet /\ faults = 0 => \A a \in Standing :
    /\ ann[a].topic \in levels \ dropped
    /\ \A b \in Standing : ann[b].topic \in levels => b <= a
    => ann[a].topic = level
=============================================================================
