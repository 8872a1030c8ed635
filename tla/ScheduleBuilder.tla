--------------------------- MODULE ScheduleBuilder ---------------------------
(***************************************************************************)
(* The training schedule of an event (app/routes/s3_ops.py): blocks with a *)
(* day and a start time, shown by day and sort_order.  Adding a block      *)
(* numbers the whole day again; changing one does not.                     *)
(***************************************************************************)
EXTENDS Integers, FiniteSets

CONSTANTS
  Ids,           \* room for rows of event_schedule_blocks
  EventDays, Times,
  MaxActive,     \* bound on the requests in progress at once
  MaxRequests    \* bound on the requests begun

VARIABLES
  block,    \* event_schedule_blocks
  req,      \* the requests in progress
  begun,
  changed,  \* history: days with a block changed since the day was numbered
  crossed   \* history: days on which requests overlapped, in what they read or wrote

vars == <<block, req, begun, changed, crossed>>

Slots == 1..MaxActive
NoBlock == [day |-> 0, start |-> 0, sort |-> 0]
NoRequest == [pc |-> "none", on |-> {}]
Blocks == {i \in Ids : block[i] # NoBlock}
On(day) == {i \in Blocks : block[i].day = day}

\* Types.
TypeOK ==
  /\ \A i \in Blocks : block[i] \in [day : EventDays, start : Times, sort : Nat \ {0}]
  /\ begun \in 0..MaxRequests /\ changed \subseteq EventDays /\ crossed \subseteq EventDays

Init ==
  /\ block = [i \in Ids |-> NoBlock] /\ req = [r \in Slots |-> NoRequest] /\ begun = 0
  /\ changed = {} /\ crossed = {}

Begin(request) ==
  /\ begun < MaxRequests /\ begun' = begun + 1
  /\ \E r \in Slots :
       /\ req[r] = NoRequest /\ \A q \in Slots : q < r => req[q] # NoRequest
       /\ req' = [req EXCEPT ![r] = request]
       /\ crossed' = crossed \cup (request.on \cap UNION {req[q].on : q \in Slots \ {r}})
End(r) == req' = [req EXCEPT ![r] = NoRequest]
\* The days that a commit crosses when it writes blocks that others have moved away
\* from the days it is about.
Strayed(q, ids) ==
  LET days == {block[i].day : i \in ids \cap Blocks} IN IF days \subseteq q.on THEN {} ELSE days \cup q.on

\* The blocks of a day before a time, and those of a block's time before it.
Sooner(day, t) == {i \in On(day) : block[i].start < t}
Earlier(i) == {j \in On(block[i].day) : block[j].start = block[i].start /\ j < i}
\* Mutant: the new block is put last.
Appended(day, start) ==
  [own |-> Cardinality(On(day)) + 1, others |-> [i \in On(day) |-> block[i].sort]]
\* "Re-sort all blocks for this day by start_time"; blocks of one time keep
\* no particular order.
Numbered(day, start) ==
  [own |-> Cardinality(Sooner(day, start)) + 1,
   others |-> [i \in On(day) |-> Cardinality(Sooner(day, block[i].start)) + Cardinality(Earlier(i)) + 1
                                    + IF start <= block[i].start THEN 1 ELSE 0]]

\* add_schedule_block up to its commit, and its commit: a block deleted
\* meanwhile that it numbers anew fails it (StaleDataError).
Add(day, start) ==
  /\ Begin([pc |-> "add", on |-> {day}, day |-> day, start |-> start, sorts |-> Numbered(day, start),
            read |-> [i \in On(day) |-> block[i].sort]])
  /\ UNCHANGED <<block, changed>>
Renumbered(q) == {i \in DOMAIN q.read : q.sorts.others[i] # q.read[i]}
CommitAdd(r) ==
  LET q == req[r]
      free == Ids \ Blocks
  IN  /\ q.pc = "add" /\ free # {} /\ Renumbered(q) \subseteq Blocks
      /\ LET new == CHOOSE i \in free : TRUE
         IN  block' = [i \in Ids |->
               CASE i = new -> [day |-> q.day, start |-> q.start, sort |-> q.sorts.own]
                 [] i \in Renumbered(q) -> [block[i] EXCEPT !.sort = q.sorts.others[i]]
                 [] OTHER -> block[i]]
      /\ changed' = changed \ {q.day} /\ crossed' = crossed \cup Strayed(q, Renumbered(q))
      /\ End(r) /\ UNCHANGED begun
FailAdd(r) ==
  /\ req[r].pc = "add" /\ ~(Renumbered(req[r]) \subseteq Blocks) /\ End(r)
  /\ UNCHANGED <<block, begun, changed, crossed>>

\* update_schedule_block: the numbers stay; what differs from what was read is
\* written, if the block is still there.
Update(i, day, start) ==
  /\ i \in Blocks /\ <<day, start>> # <<block[i].day, block[i].start>>
  /\ Begin([pc |-> "update", on |-> {day, block[i].day}, id |-> i, day |-> day, start |-> start,
            moved |-> day # block[i].day, shifted |-> start # block[i].start])
  /\ UNCHANGED <<block, changed>>
CommitUpdate(r) ==
  LET q == req[r]
  IN  /\ q.pc = "update"
      /\ IF q.id \in Blocks
         THEN /\ block' = [block EXCEPT ![q.id] =
                   [day |-> IF q.moved THEN q.day ELSE @.day,
                    start |-> IF q.shifted THEN q.start ELSE @.start, sort |-> @.sort]]
              /\ changed' = changed \cup q.on /\ crossed' = crossed \cup Strayed(q, {q.id})
         ELSE UNCHANGED <<block, changed, crossed>>
      /\ End(r) /\ UNCHANGED begun

\* delete_schedule_block.
Delete(i) ==
  /\ i \in Blocks /\ Begin([pc |-> "delete", on |-> {block[i].day}, id |-> i])
  /\ UNCHANGED <<block, changed>>
CommitDelete(r) ==
  LET q == req[r]
  IN  /\ q.pc = "delete" /\ block' = [block EXCEPT ![q.id] = NoBlock]
      /\ crossed' = crossed \cup Strayed(q, {q.id})
      /\ End(r) /\ UNCHANGED <<begun, changed>>

Next ==
  \/ \E day \in EventDays, start \in Times : Add(day, start) \/ \E i \in Ids : Update(i, day, start)
  \/ \E i \in Ids : Delete(i)
  \/ \E r \in Slots : CommitAdd(r) \/ FailAdd(r) \/ CommitUpdate(r) \/ CommitDelete(r)
Spec == Init /\ [][Next]_vars

-----------------------------------------------------------------------------
\* ftx_builder shows a day by sort_order, then start_time.
ShownBefore(i, j) ==
  \/ block[i].sort < block[j].sort
  \/ block[i].sort = block[j].sort /\ block[i].start < block[j].start

\* A day is shown by its times, unless one of its blocks was changed since
\* the last was added, or requests about the day overlapped.
ScheduleIsInOrder ==
  /\ TypeOK
  /\ \A day \in EventDays \ (changed \cup crossed) : \A i, j \in On(day) :
       block[i].start < block[j].start => ShownBefore(i, j)

-----------------------------------------------------------------------------
(* Why the schedule is in order: the inductive invariant. *)

Sound == IsFiniteSet(Ids) /\ Ids \subseteq Nat /\ Times \subseteq Nat /\ MaxRequests \in Nat

\* What a request in progress is, by what it will do.
Deletions == [pc : {"delete"}, on : SUBSET EventDays, id : Ids]
Updates == [pc : {"update"}, on : SUBSET EventDays, id : Ids, day : EventDays, start : Times,
            moved : BOOLEAN, shifted : BOOLEAN]
Additions(read) == [pc : {"add"}, on : SUBSET EventDays, day : EventDays, start : Times,
                    sorts : [own : Nat \ {0}, others : [read -> Nat \ {0}]], read : [read -> Nat \ {0}]]
IsRequest(q) == q \in {NoRequest} \cup Deletions \cup Updates \/ \E read \in SUBSET Ids : q \in Additions(read)
AboutInv(q) ==
  /\ q.pc = "add" => q.on = {q.day}
  /\ q.pc = "update" /\ q.moved => q.day \in q.on
TypeInv ==
  /\ TypeOK /\ DOMAIN block = Ids /\ DOMAIN req = Slots
  /\ \A r \in Slots : IsRequest(req[r]) /\ AboutInv(req[r])

\* Requests about one day have crossed.
LoneInv == \A r, s \in Slots : r # s => req[r].on \cap req[s].on \subseteq crossed

\* What an addition has read still stands, and its numbers are those of the times.
AddInv(q) ==
  q.pc = "add" /\ q.day \notin crossed =>
    /\ DOMAIN q.read = On(q.day) /\ DOMAIN q.sorts.others = On(q.day)
    /\ \A i \in On(q.day) : q.read[i] = block[i].sort
    /\ \A i, j \in On(q.day) : block[i].start < block[j].start => q.sorts.others[i] < q.sorts.others[j]
    /\ \A i \in On(q.day) : /\ block[i].start < q.start => q.sorts.others[i] < q.sorts.own
                            /\ q.start < block[i].start => q.sorts.own < q.sorts.others[i]
ScheduleInv ==
  TypeInv /\ LoneInv /\ (\A r \in Slots : AddInv(req[r])) /\ ScheduleIsInOrder

-----------------------------------------------------------------------------
(* What the code does not keep. *)

\* A day is shown by its times after a change as well.
ChangesAreSorted ==
  \A day \in EventDays \ crossed : \A i, j \in On(day) : block[i].start < block[j].start => ShownBefore(i, j)

\* A day is shown by its times when blocks are added at once.
AddsAreSorted ==
  \A day \in EventDays \ changed : \A i, j \in On(day) : block[i].start < block[j].start => ShownBefore(i, j)
=============================================================================
