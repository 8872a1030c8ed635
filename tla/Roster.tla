------------------------------- MODULE Roster -------------------------------
(***************************************************************************)
(* The members' records and the Nextcloud groups that follow them: the     *)
(* profile editor of S1 (app/routes/member_edit.py), the promotions desk   *)
(* with its staged changes (app/routes/promotions.py), the address form    *)
(* that moves a member to the team of the area (app/routes/contact_edit.py)*)
(* and the renaming of a team (app/routes/team_manage.py,                  *)
(* app/services/nc_groups.py).  Each request reads the record, calls       *)
(* Nextcloud before or after its commit, and writes the attributes that    *)
(* differ from those it read.  Whether the address or a lock decides the   *)
(* team is left open: a save may put a member into any team.               *)
(***************************************************************************)
EXTENDS Integers, Sequences, FiniteSets, FiniteSetsExt

CONSTANTS
  Members,
  Teams,        \* the names of teams there may ever be
  Letter,       \* team name -> the letter it must begin with
  Start,        \* member -> the record to begin with
  TopRank,      \* ranks are 1 (recruit), 2, ..., TopRank
  NCO,          \* the lowest rank that belongs to the group Leaders
  MaxStages,    \* bound on the staged changes
  MaxActive,    \* bound on the requests in progress at once
  MaxRequests,  \* bound on the requests begun
  MaxFaults     \* bound on lost calls of Nextcloud and crashes

ASSUME RanksAssumption == TopRank \in Nat /\ NCO \in 2..TopRank
ASSUME BoundsAssumption ==
  MaxStages \in Nat /\ MaxActive \in Nat /\ MaxRequests \in Nat /\ MaxFaults \in Nat

VARIABLES
  row,         \* members
  ranks,       \* rank_history: member -> sequence of <<old, new>>
  names,       \* the names of teams there are now
  stages,      \* promotion_stages
  rankGroups,  \* member -> the ranks whose Nextcloud group the account is in
  teamGroups,  \* member -> the teams whose group it is in
  leaders,     \* the accounts in the group Leaders
  req,         \* the requests in progress
  begun, faults,
  crossed,     \* history: members two requests had read at once, or one failed on
  moved,       \* history: members moved to a team by their own address
  unguarded,   \* history: leaders whose team, or whose team's name, was not asked for another
  executed,    \* history: stage -> how often it was carried out
  breached     \* history: how members on hold were promoted at the desk

nextcloud == <<rankGroups, teamGroups, leaders>>
history == <<crossed, moved, unguarded, executed, breached>>
vars == <<row, ranks, names, stages, nextcloud, req, begun, faults, history>>

Ranks == 1..TopRank
Slots == 1..MaxActive
Stages == 1..MaxStages
RowType == [rank : Ranks, status : {"recruit", "active", "separated"}, team : Teams,
            title : {"none", "TL"}, hold : BOOLEAN]
StageType == [member : Members, from : Ranks, to : Ranks, up : BOOLEAN,
              status : {"staged", "finalized", "cancelled"}]
\* To begin with, a team has one leader who serves.
ASSUME StartAssumption ==
  /\ Start \in [Members -> RowType]
  /\ \A m, o \in Members : m # o /\ Start[m].team = Start[o].team
                           /\ Start[m].title = "TL" /\ Start[o].title = "TL"
       => Start[m].status = "separated" \/ Start[o].status = "separated"

NoRow == [rank |-> 0]
NoStage == [status |-> "none"]
NoRequest == [pc |-> "none"]

\* Types; a name in use is a team's.
TypeOK ==
  /\ row \in [Members -> RowType]
  /\ \A m \in Members : ranks[m] \in Seq(Ranks \X Ranks)
  /\ names \subseteq Teams
  /\ \A s \in Stages : stages[s] = NoStage \/ stages[s] \in StageType
  /\ rankGroups \in [Members -> SUBSET Ranks] /\ teamGroups \in [Members -> SUBSET Teams]
  /\ leaders \subseteq Members
  /\ begun \in 0..MaxRequests /\ faults \in 0..MaxFaults

-----------------------------------------------------------------------------
Leads(rank, title) == rank >= NCO \/ title = "TL"

Init ==
  /\ row = Start
  /\ ranks = [m \in Members |-> << >>]
  /\ names = {Start[m].team : m \in Members}
  /\ stages = [s \in Stages |-> NoStage]
  /\ rankGroups = [m \in Members |-> {Start[m].rank}]
  /\ teamGroups = [m \in Members |-> {Start[m].team}]
  /\ leaders = {m \in Members : Leads(Start[m].rank, Start[m].title)}
  /\ req = [r \in Slots |-> NoRequest] /\ begun = 0 /\ faults = 0
  /\ crossed = {} /\ moved = {} /\ unguarded = {} /\ breached = {}
  /\ executed = [s \in Stages |-> 0]

\* The members a request has read, itself or by the staged changes it is to carry out.
HasRead(r) ==
  IF req[r] = NoRequest THEN {}
  ELSE {m \in Members : req[r].old[m] # NoRow} \cup {req[r].staged[s].member : s \in req[r].todo}
Renaming == \E s \in Slots : req[s].pc \in {"migrate", "drop"}
Sharing(r, ms) == ms \cap UNION {HasRead(s) : s \in Slots \ {r}}

Idle == [pc |-> "idle", op |-> "none", m |-> "none", page |-> NoRow,
         old |-> [x \in Members |-> NoRow], new |-> [x \in Members |-> NoRow],
         log |-> [x \in Members |-> << >>],
         s |-> 0, stage |-> NoStage, staged |-> [x \in Stages |-> NoStage],
         todo |-> {}, done |-> {}, from |-> "none", to |-> "none"]
Begin(request, ms) ==
  /\ begun < MaxRequests /\ begun' = begun + 1
  /\ \E r \in Slots :
       /\ req[r] = NoRequest /\ \A q \in Slots : q < r => req[q] # NoRequest
       /\ req' = [req EXCEPT ![r] = request]
       /\ crossed' = crossed \cup Sharing(r, ms)
                      \cup {m \in Members : request.op = "rename" /\ Renaming}
At(r, pc) == req' = [req EXCEPT ![r].pc = pc]
End(r) == req' = [req EXCEPT ![r] = NoRequest]

\* Only what differs from what was read is written.
Merge(now, old, new) ==
  [f \in DOMAIN now |-> IF new[f] = old[f] THEN now[f] ELSE new[f]]
Changed(r) == {m \in Members : req[r].new[m] # NoRow}
Written(r) == [m \in Members |-> IF m \in Changed(r)
                                 THEN Merge(row[m], req[r].old[m], req[r].new[m]) ELSE row[m]]

\* A recruit who gets a rank is patched.
Patched(old, new) ==
  [new EXCEPT !.status = IF old.rank = 1 /\ new.rank # 1 /\ @ = "recruit" THEN "active" ELSE @]
WithRank(old, rank) == Patched(old, [old EXCEPT !.rank = rank])
Held(record, rank) == rank > record.rank /\ record.hold

-----------------------------------------------------------------------------
(* The profile editor. *)

\* edit_member_page: the form shows the record as it is now.
BeginEdit(m) ==
  /\ Begin([Idle EXCEPT !.pc = "page", !.op = "edit", !.m = m, !.page = row[m]], {})
  /\ UNCHANGED <<row, ranks, names, stages, nextcloud, faults, moved, unguarded, executed, breached>>

\* What S1 may make of the form: one field, or none that matters here.
Forms(page) ==
  {page} \cup {[page EXCEPT !.rank = k] : k \in Ranks}
         \cup {[page EXCEPT !.status = t] : t \in {"recruit", "active", "separated"}}
         \cup {[page EXCEPT !.team = t] : t \in names}
         \cup {[page EXCEPT !.title = t] : t \in {"none", "TL"}}
         \cup {[page EXCEPT !.hold = ~@]}

\* save_member_edit: the whole form is laid over the record.
PostEdit(r, form) ==
  LET q == req[r]
      old == row[q.m]
      new == Patched(old, form)
  IN  /\ q.pc = "page"
      /\ req' = [req EXCEPT ![r] =
           [q EXCEPT !.pc = IF new.rank = old.rank THEN "lead" ELSE "rank",
                     !.page = NoRow, !.old[q.m] = old, !.new[q.m] = new,
                     !.log[q.m] = IF new.rank = old.rank THEN << >>
                                  ELSE << <<old.rank, new.rank>> >>]]
      /\ crossed' = crossed \cup Sharing(r, {q.m})
      /\ UNCHANGED <<row, ranks, names, stages, nextcloud, begun, faults,
                     moved, unguarded, executed, breached>>

\* Mutant: the leader of the team the member leaves.
RivalsLeft(m, new, old) ==
  {o \in Members \ {m} : row[o].team = old.team /\ row[o].title = "TL"
                         /\ row[o].status \in {"active", "recruit"}}

\* The leaders of the team in the scope of the member.
Rivals(m, new, old) ==
  {o \in Members \ {m} : row[o].team = new.team /\ row[o].title = "TL"
                         /\ row[o].status \in {"active", "recruit"}}

\* Mutant: only the title counts, as it once did.
TitleOnly(m, title) == title = "TL"
\* _sync_leadership_groups for the accounts given, with the title as it will be.
Ranked(m, title) == Leads(row[m].rank, title)
LeadersAfter(m, new, old, rivals) ==
  LET out == {o \in rivals : ~Ranked(o, "none")}
      fixed == new.rank = old.rank /\ new.title = old.title
      others == (leaders \cup rivals) \ out
  IN  IF Leads(new.rank, new.title) THEN others \cup {m}
      ELSE IF fixed THEN others ELSE others \ {m}

\* The title passes on to the member; two leaders already there fail the request.
\* A call of Nextcloud may be lost.
Cascade(r, lost) ==
  LET q == req[r]
      m == q.m
      old == q.old[m]
      new == q.new[m]
      rivals == IF new.title = "TL" THEN Rivals(m, new, old) ELSE {}
  IN  /\ q.pc = "lead"
      /\ IF Cardinality(rivals) > 1
         THEN /\ End(r) /\ lost = FALSE
              /\ crossed' = crossed \cup {m}
              /\ UNCHANGED <<teamGroups, leaders, faults, unguarded>>
         ELSE /\ req' = [req EXCEPT ![r] = [q EXCEPT !.pc = "commit",
                   !.old = [o \in Members |-> IF o \in rivals THEN row[o] ELSE @[o]],
                   !.new = [o \in Members |-> IF o \in rivals
                              THEN [row[o] EXCEPT !.title = "none"] ELSE @[o]]]]
              /\ crossed' = crossed \cup Sharing(r, rivals)
                   \cup {x \in {m} : Renaming}
              /\ unguarded' = unguarded \cup
                   {x \in {m} : new.title = "TL" /\ \E s \in Slots \ {r} :
                                  req[s].pc = "commit" /\ req[s].op = "edit"}
              /\ IF lost
                 THEN /\ faults < MaxFaults /\ faults' = faults + 1
                      /\ UNCHANGED <<teamGroups, leaders>>
                 ELSE /\ UNCHANGED faults
                      /\ leaders' = LeadersAfter(m, new, old, rivals)
                      /\ teamGroups' = [o \in Members |->
                           IF o = m THEN {new.team}
                           ELSE IF o \in rivals THEN {row[o].team} ELSE teamGroups[o]]
      /\ UNCHANGED <<row, ranks, names, stages, rankGroups, begun, moved, executed, breached>>

-----------------------------------------------------------------------------
(* The promotions desk. *)

Promotion(op, pc, m, k) ==
  Begin([Idle EXCEPT !.pc = pc, !.op = op, !.m = m, !.old[m] = row[m],
                     !.new[m] = WithRank(row[m], k), !.log[m] = << <<row[m].rank, k>> >>], {m})
AtDesk == UNCHANGED <<row, ranks, names, stages, nextcloud, faults, moved, unguarded, executed, breached>>

\* promote_member calls Nextcloud before it commits, batch_promote after.
BeginPromote(m, k) == ~Held(row[m], k) /\ Promotion("promote", "rank", m, k) /\ AtDesk
BeginBatch(m, k) == ~Held(row[m], k) /\ Promotion("batch", "commit", m, k) /\ AtDesk

\* Mutant: the status is left to a default nobody reads.
Unmarked(m, from, to) ==
  [member |-> m, from |-> from, to |-> to, up |-> to >= from, status |-> "none"]
Planned(m, from, to) ==
  [member |-> m, from |-> from, to |-> to, up |-> to >= from, status |-> "staged"]
StagedFor(m) == {s \in Stages : stages[s].status = "staged" /\ stages[s].member = m}

\* stage_promotion updates the entry there is; it raises when it finds two.
BeginStage(m, k) ==
  /\ k # row[m].rank /\ ~Held(row[m], k) /\ Cardinality(StagedFor(m)) <= 1
  /\ Begin([Idle EXCEPT !.pc = "save", !.op = "stage", !.m = m, !.old[m] = row[m],
              !.s = IF StagedFor(m) = {} THEN 0 ELSE CHOOSE s \in StagedFor(m) : TRUE,
              !.stage = Planned(m, row[m].rank, k)], {m})
  /\ AtDesk

\* remove_stage and edit_stage
BeginRemove(s) ==
  /\ stages[s].status = "staged"
  /\ Begin([Idle EXCEPT !.pc = "save", !.op = "remove", !.m = stages[s].member, !.s = s,
              !.old[stages[s].member] = row[stages[s].member]], {stages[s].member})
  /\ AtDesk
BeginRestage(s, k) ==
  /\ stages[s].status = "staged"
  /\ Begin([Idle EXCEPT !.pc = "save", !.op = "restage", !.m = stages[s].member, !.s = s,
              !.old[stages[s].member] = row[stages[s].member],
              !.stage = Planned(stages[s].member, stages[s].from, k)], {stages[s].member})
  /\ AtDesk

SaveStage(r) ==
  LET q == req[r]
      free == {s \in Stages : stages[s] = NoStage}
  IN  /\ q.pc = "save"
      /\ \/ /\ q.op = "stage" /\ q.s = 0 /\ free # {}
            /\ stages' = [stages EXCEPT ![Min(free)] = q.stage]
         \/ /\ q.op = "stage" /\ q.s # 0
            /\ stages' = [stages EXCEPT ![q.s].from = q.stage.from, ![q.s].to = q.stage.to,
                                        ![q.s].up = q.stage.up]
         \/ /\ q.op = "restage"
            /\ stages' = [stages EXCEPT ![q.s].to = q.stage.to, ![q.s].up = q.stage.up]
         \/ /\ q.op = "remove"
            /\ stages' = [stages EXCEPT ![q.s].status = "cancelled"]
      /\ End(r)
      /\ UNCHANGED <<row, ranks, names, nextcloud, begun, faults, history>>

\* finalize_staged reads every entry that is staged, and carries out one after the other.
\* Mutant: everything that is not finalized yet, what was taken back included.
EvenRemoved == {s \in Stages : stages[s].status \notin {"none", "finalized"}}
Due == {s \in Stages : stages[s].status = "staged"}
BeginFinalize ==
  /\ Due # {}
  /\ Begin([Idle EXCEPT !.pc = "next", !.op = "finalize", !.todo = Due, !.staged = stages],
           {stages[s].member : s \in Due})
  /\ AtDesk

\* Mutant: the hold was checked when the change was staged.
NeverRefused(stage, record) == FALSE
\* The hold is checked again, for what was a promotion when it was staged.
Refused(stage, record) == stage.up /\ record.hold
\* Mutant: the rank the member had when the change was staged.
StagedRank(stage, record) == stage.from
\* _execute_promote: the old rank is the member's, as it is now.
OldRank(stage, record) == record.rank
ExecuteStage(r, s) ==
  LET q == req[r]
      m == q.staged[s].member
      first == q.old[m] = NoRow
      record == IF first THEN row[m] ELSE q.new[m]
      k == q.staged[s].to
  IN  /\ q.pc = "next" /\ s \in q.todo
      /\ IF Refused(q.staged[s], record)
         THEN req' = [req EXCEPT ![r].todo = @ \ {s}]
         ELSE req' = [req EXCEPT ![r] = [q EXCEPT !.pc = "rank", !.m = m, !.todo = @ \ {s},
                !.done = @ \cup {s}, !.old[m] = IF first THEN record ELSE @,
                !.new[m] = WithRank(record, k),
                !.log[m] = Append(@, <<OldRank(q.staged[s], record), k>>)]]
      /\ crossed' = crossed \cup Sharing(r, {m})
      /\ UNCHANGED <<row, ranks, names, stages, nextcloud, begun, faults,
                     moved, unguarded, executed, breached>>
AllExecuted(r) ==
  /\ req[r].pc = "next" /\ req[r].todo = {}
  /\ At(r, "commit")
  /\ UNCHANGED <<row, ranks, names, stages, nextcloud, begun, faults, history>>

-----------------------------------------------------------------------------
(* What all of them share. *)

\* Mutant: the old group is left to itself.
RankGroupsAdded(m, rank) == rankGroups[m] \cup {rank}
\* _sync_rank_group: out of the groups of all other ranks, and into that of the new one.
RankGroupsAfter(m, rank) == {rank}
After(op) == CASE op = "edit" -> "lead" [] op = "promote" -> "commit" [] op = "finalize" -> "next"
               [] OTHER -> "end"
SyncRank(r, lost) ==
  LET q == req[r]
  IN  /\ q.pc = "rank"
      /\ IF lost
         THEN faults < MaxFaults /\ faults' = faults + 1 /\ UNCHANGED rankGroups
         ELSE /\ UNCHANGED faults
              /\ rankGroups' = [rankGroups EXCEPT ![q.m] = RankGroupsAfter(q.m, q.new[q.m].rank)]
      /\ IF After(q.op) = "end" THEN End(r) ELSE At(r, After(q.op))
      /\ UNCHANGED <<row, ranks, names, stages, teamGroups, leaders, begun, history>>

\* A promotion of the desk that commits while the member is on hold.
Breaches(r) ==
  {IF \E s \in req[r].done : req[r].staged[s].member = m /\ ~req[r].staged[s].up
   THEN "relabelled" ELSE "desk" :
     m \in {x \in Changed(r) \ crossed : /\ req[r].op \in {"promote", "batch", "finalize"}
                                         /\ req[r].new[x].rank > req[r].old[x].rank
                                         /\ row[x].hold}}
Commit(r) ==
  LET q == req[r]
  IN  /\ q.pc = "commit"
      /\ row' = Written(r)
      /\ ranks' = [m \in Members |-> ranks[m] \o q.log[m]]
      /\ stages' = [s \in Stages |-> IF s \in q.done THEN [stages[s] EXCEPT !.status = "finalized"]
                                     ELSE stages[s]]
      /\ executed' = [s \in Stages |-> IF s \in q.done THEN executed[s] + 1 ELSE executed[s]]
      /\ breached' = breached \cup Breaches(r)
      /\ moved' = IF q.op = "move" THEN moved \cup {q.m}
                  ELSE IF q.op = "edit" THEN moved \ {q.m} ELSE moved
      /\ IF q.op = "batch" THEN At(r, "rank") ELSE End(r)
      /\ UNCHANGED <<names, nextcloud, begun, faults, crossed, unguarded>>

-----------------------------------------------------------------------------
(* Teams. *)

\* save_contact: an address in the area of another team moves the member.
BeginMove(m, t) ==
  /\ t \in names \ {row[m].team}
  /\ Begin([Idle EXCEPT !.pc = "team", !.op = "move", !.m = m, !.old[m] = row[m],
                        !.new[m] = [row[m] EXCEPT !.team = t]], {m})
  /\ AtDesk
\* sync_member_team_group: leaving a group raises, before the new one is joined.
SyncMove(r) ==
  LET m == req[r].m
      t == req[r].new[m].team
  IN  /\ req[r].pc = "team"
      /\ teamGroups' = [teamGroups EXCEPT ![m] = IF @ \subseteq {t} THEN {t} ELSE @]
      /\ At(r, "commit")
      /\ UNCHANGED <<row, ranks, names, stages, rankGroups, leaders, begun, faults, history>>

\* Mutant: the old group goes first.
DropFirst == <<"drop", "migrate">>
\* rename_team_group makes the new group before it deletes the old one.
RenameOrder == <<"migrate", "drop">>
\* rename_team_submit commits the new name, which keeps the team's letter, and then
\* sees to Nextcloud.  A page opened earlier may have brought the name back already.
BeginRename(t, u) ==
  /\ t \in names /\ u \in Teams \ names /\ Letter[u] = Letter[t]
  /\ row' = [m \in Members |-> IF row[m].team = t THEN [row[m] EXCEPT !.team = u] ELSE row[m]]
  /\ names' = (names \ {t}) \cup {u}
  /\ Begin([Idle EXCEPT !.pc = RenameOrder[1], !.op = "rename", !.from = t, !.to = u], Members)
  /\ unguarded' = unguarded \cup {m \in Members : row[m].team = u}
  /\ UNCHANGED <<ranks, stages, nextcloud, faults, moved, executed, breached>>
RenameNext(r) == IF req[r].pc = RenameOrder[1] THEN At(r, RenameOrder[2]) ELSE End(r)
\* A listing that fails is a group of nobody.
Migrate(r, lost) ==
  /\ req[r].pc = "migrate"
  /\ IF lost
     THEN faults < MaxFaults /\ faults' = faults + 1 /\ UNCHANGED teamGroups
     ELSE /\ UNCHANGED faults
          /\ teamGroups' = [m \in Members |-> IF req[r].from \in teamGroups[m]
                             THEN teamGroups[m] \cup {req[r].to} ELSE teamGroups[m]]
  /\ RenameNext(r)
  /\ UNCHANGED <<row, ranks, names, stages, rankGroups, leaders, begun, history>>
Drop(r) ==
  /\ req[r].pc = "drop"
  /\ teamGroups' = [m \in Members |-> teamGroups[m] \ {req[r].from}]
  /\ RenameNext(r)
  /\ UNCHANGED <<row, ranks, names, stages, rankGroups, leaders, begun, faults, history>>

\* A restart: the requests in progress are rolled back, what Nextcloud did stays.
Crash ==
  /\ faults < MaxFaults /\ faults' = faults + 1
  /\ \E r \in Slots : req[r] # NoRequest
  /\ req' = [r \in Slots |-> NoRequest]
  /\ UNCHANGED <<row, ranks, names, stages, nextcloud, begun, history>>

Begins ==
  \/ \E m \in Members : BeginEdit(m)
  \/ \E m \in Members, k \in Ranks : BeginPromote(m, k) \/ BeginBatch(m, k) \/ BeginStage(m, k)
  \/ \E s \in Stages : BeginRemove(s)
  \/ \E s \in Stages, k \in Ranks : BeginRestage(s, k)
  \/ BeginFinalize
  \/ \E m \in Members, t \in Teams : BeginMove(m, t)
  \/ \E t, u \in Teams : BeginRename(t, u)
Continues(r) ==
  \/ req[r].pc = "page" /\ \E form \in Forms(req[r].page) : PostEdit(r, form)
  \/ \E lost \in BOOLEAN : Cascade(r, lost) \/ SyncRank(r, lost) \/ Migrate(r, lost)
  \/ SaveStage(r)
  \/ \E s \in Stages : ExecuteStage(r, s)
  \/ AllExecuted(r) \/ Commit(r) \/ SyncMove(r) \/ Drop(r)
Next ==
  \/ Begins
  \/ \E r \in Slots : req[r] # NoRequest /\ Continues(r)
  \/ Crash

Spec == Init /\ [][Next]_vars

-----------------------------------------------------------------------------
(* Properties. *)

Quiet == \A r \in Slots : req[r] = NoRequest

\* The rank history of a member is a chain that ends with the rank held, whichever
\* page changed it, unless two requests about the member overlapped.
RanksExplained ==
  \A m \in Members \ crossed :
    LET chain == << <<Start[m].rank, Start[m].rank>> >> \o ranks[m]
    IN  /\ \A i \in 1..Len(ranks[m]) : chain[i + 1][1] = chain[i][2]
        /\ chain[Len(chain)][2] = row[m].rank

\* A staged change is carried out once, and not after it was taken back, unless it
\* was read by two requests at once.
StagedOnce ==
  [][\A s \in Stages :
       executed'[s] # executed[s] /\ stages[s].member \notin crossed
         => executed[s] = 0 /\ stages[s].status = "staged"]_executed

\* The desk promotes nobody who is on hold, staged before the hold or not, unless it
\* was staged as a demotion or requests overlapped.
HoldsAreKept == "desk" \notin breached

\* A team has one leader, unless one moved in, or the saves overlapped.
OneLeader ==
  \A m, o \in Members \ (crossed \cup moved \cup unguarded) :
    m # o /\ row[m].team = row[o].team /\ row[m].title = "TL" /\ row[o].title = "TL"
      => row[m].status = "separated" \/ row[o].status = "separated"

\* Every account is in the group of its member's rank and no other.
RankGroupFollows ==
  Quiet /\ faults = 0 => \A m \in Members \ crossed : rankGroups[m] = {row[m].rank}

\* Every account is in the group of its member's team and no other, through edits and
\* renamings, unless the member's own address moved it.
TeamGroupFollows ==
  Quiet /\ faults = 0 => \A m \in Members \ (crossed \cup moved) : teamGroups[m] = {row[m].team}

\* Nobody who leads by rank or title is put out of Leaders: by the loss of the title,
\* or by a save of something else.
LeadersStay ==
  Quiet /\ faults = 0 =>
    \A m \in Members \ crossed :
      (\A i \in 1..Len(ranks[m]) : ranks[m][i][2] <= ranks[m][i][1])
        /\ Leads(row[m].rank, row[m].title) => m \in leaders

\* The records of the members are in order: ranks are explained, holds are kept
\* and teams have one leader.
MembersAreInOrder == TypeOK /\ RanksExplained /\ HoldsAreKept /\ OneLeader

\* The groups in Nextcloud follow the records: of rank, of team and of Leaders.
GroupsFollow == RankGroupFollows /\ TeamGroupFollows /\ LeadersStay

-----------------------------------------------------------------------------
(* Where the code departs from what it says, or from what one would expect. *)

\* A team has one leader, also when a member moves: an address moves a leader into a
\* team that has one, and nobody is asked.
OneLeaderAnyway ==
  \A m, o \in Members \ (crossed \cup unguarded) :
    m # o /\ row[m].team = row[o].team /\ row[m].title = "TL" /\ row[o].title = "TL"
      => row[m].status = "separated" \/ row[o].status = "separated"

\* sync_member_team_group, "so the two stay in step": the call that leaves the old group
\* is not one the client accepts, and the error is swallowed.
MovedFollowsToo ==
  Quiet /\ faults = 0 => \A m \in Members \ crossed : teamGroups[m] = {row[m].team}

\* A renaming loses nobody, "self-healing": a listing that fails is an empty group,
\* which is deleted.
NobodyWithoutTeam == Quiet => \A m \in Members : teamGroups[m] # {}

\* A member's team exists: a page opened before the renaming brings the old name back.
TeamsExist == \A m \in Members : row[m].team \in names

\* A save changes the rank only from the one its page showed: a page opened before a
\* promotion takes the promotion back.
PagesAreFresh ==
  [][\A r \in Slots : req[r].pc = "page" /\ req'[r].pc = "rank"
       => req[r].page.rank = row[req[r].m].rank]_req

\* A staged change is carried out once and never after it was taken back, also when
\* two requests overlap.
StagedOnceAlways ==
  \A s \in Stages : executed[s] <= (IF stages[s].status = "finalized" THEN 1 ELSE 0)

\* "Update existing active staged row instead of duplicating": two overlapping requests
\* stage two, and from then on none can be staged for the member.
OneStagedEach == \A m \in Members : Cardinality(StagedFor(m)) <= 1

\* No promotion of a member on hold at all: a demotion that was staged is carried out
\* as the promotion it has become since.
HoldsAlwaysKept == breached = {}

\* The group of the rank follows the record through failures: promote_member changes
\* it before the commit.
RankGroupNeverDrifts ==
  Quiet => \A m \in Members \ crossed : rankGroups[m] = {row[m].rank}

\* Whoever becomes an NCO joins Leaders: not at the desk.
LeadersJoin ==
  Quiet /\ faults = 0 =>
    \A m \in Members \ crossed : Leads(row[m].rank, row[m].title) => m \in leaders

=============================================================================
