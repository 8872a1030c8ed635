---------------------------- MODULE Roster_proofs ----------------------------
(***************************************************************************)
(* Theorems about Roster, for any number of members, teams, ranks, staged  *)
(* changes and requests, and every bound on faults.                        *)
(***************************************************************************)
EXTENDS Roster, SequenceTheorems, WellFoundedInduction, TLAPS

-----------------------------------------------------------------------------
(***************************************************************************)
(* The inductive invariant: what a request knows, and how it agrees with   *)
(* the records.                                                            *)
(***************************************************************************)
Pcs == {"page", "rank", "lead", "commit", "save", "next", "team", "migrate", "drop"}
Ops == {"edit", "promote", "batch", "stage", "remove", "restage", "finalize", "move", "rename"}
RequestType ==
  [pc : Pcs, op : Ops, m : Members \cup {"none"}, page : RowType \cup {NoRow},
   old : [Members -> RowType \cup {NoRow}], new : [Members -> RowType \cup {NoRow}],
   log : [Members -> Seq(Ranks \X Ranks)], s : Stages \cup {0},
   stage : StageType \cup {NoStage}, staged : [Stages -> StageType \cup {NoStage}],
   todo : SUBSET Stages, done : SUBSET Stages, from : Teams \cup {"none"}, to : Teams \cup {"none"}]

\* The ranks in a log follow one another, from the first to the last.
Explains(log, from, to) ==
  IF log = << >> THEN from = to
  ELSE /\ log[1][1] = from /\ log[Len(log)][2] = to
       /\ \A i \in 1..(Len(log) - 1) : log[i + 1][1] = log[i][2]
NeverUp(log) == \A i \in 1..Len(log) : log[i][2] <= log[i][1]

\* A promotion leaves these alone.
Same(old, new) == new.team = old.team /\ new.title = old.title /\ new.hold = old.hold
                  /\ (new.status = "separated" <=> old.status = "separated")

\* What a request of each kind looks like, step by step.
EditShape(q) ==
  /\ q.pc \in {"page", "rank", "lead", "commit"} /\ q.m \in Members
  /\ q.pc = "page" => q.page \in RowType /\ \A x \in Members : q.old[x] = NoRow
  /\ q.pc # "page" => q.new[q.m] # NoRow
  /\ q.pc # "commit" => \A x \in Members : x # q.m => q.new[x] = NoRow
  /\ \A x \in Members : x # q.m /\ q.new[x] # NoRow => q.new[x] = [q.old[x] EXCEPT !.title = "none"]
PromoteShape(q) ==
  /\ q.pc \in {"rank", "commit"} /\ q.m \in Members /\ q.new[q.m] # NoRow
  /\ \A x \in Members : x # q.m => q.old[x] = NoRow /\ q.new[x] = NoRow
  /\ q.new[q.m].rank > q.old[q.m].rank => ~q.old[q.m].hold
StageShape(q) ==
  /\ q.pc = "save" /\ q.m \in Members /\ q.old[q.m] # NoRow
  /\ q.op = "stage" \/ q.s # 0
  /\ q.op # "remove" => q.stage \in StageType /\ q.stage.status = "staged" /\ q.stage.member = q.m
FinalizeShape(q) ==
  /\ q.pc \in {"next", "rank", "commit"}
  /\ q.pc = "rank" => q.m \in Members /\ q.new[q.m] # NoRow
  /\ q.todo \cap q.done = {}
  /\ \A s \in q.todo \cup q.done : q.staged[s] # NoStage
  /\ \A s \in q.done : q.old[q.staged[s].member] # NoRow
  /\ \A x \in Members : q.old[x] # NoRow => q.new[x] # NoRow
  /\ \A x \in Members : q.new[x] # NoRow /\ q.old[x].hold =>
       \E s \in q.done : q.staged[s].member = x /\ ~q.staged[s].up
MoveShape(q) ==
  /\ q.pc \in {"team", "commit"} /\ q.m \in Members /\ q.new[q.m] # NoRow
  /\ \A x \in Members : x # q.m => q.new[x] = NoRow
RenameShape(q) ==
  /\ q.pc \in {"migrate", "drop"} /\ q.from # q.to /\ q.from \in Teams /\ q.to \in Teams
  /\ \A x \in Members : q.old[x] = NoRow
\* What it will write of a member, and the log of the ranks in between.
WriteShape(q) ==
  \A x \in Members :
    /\ q.new[x] = NoRow => q.log[x] = << >>
    /\ q.new[x] # NoRow =>
         /\ q.old[x] # NoRow
         /\ Explains(q.log[x], q.old[x].rank, q.new[x].rank)
         /\ NeverUp(q.log[x]) => q.new[x].rank <= q.old[x].rank
         /\ q.op \in {"promote", "batch", "finalize"} => Same(q.old[x], q.new[x])
         /\ q.op = "move" => q.new[x] = [q.old[x] EXCEPT !.team = q.new[x].team]
         /\ q.op \notin {"stage", "remove", "restage", "rename"}
Shape(q) ==
  /\ q.op = "edit" => EditShape(q)
  /\ q.op \in {"promote", "batch"} => PromoteShape(q)
  /\ q.op \in {"stage", "remove", "restage"} => StageShape(q)
  /\ q.op = "finalize" => FinalizeShape(q)
  /\ q.op = "move" => MoveShape(q)
  /\ q.op = "rename" => RenameShape(q)
  /\ q.op # "finalize" => q.todo = {} /\ q.done = {}
  /\ WriteShape(q)

Requests == {q \in RequestType : Shape(q)}
RequestsInv == req \in [Slots -> Requests \cup {NoRequest}]
TablesInv ==
  /\ ranks \in [Members -> Seq(Ranks \X Ranks)]
  /\ stages \in [Stages -> StageType \cup {NoStage}] /\ executed \in [Stages -> Nat]
  /\ crossed \subseteq Members

\* Nobody but the members crossed is read by two requests.
AloneInv == \A r, s \in Slots : r # s => HasRead(r) \cap HasRead(s) \subseteq crossed

\* The copy a request has of any other member is the record.
Committed(r) == req[r].op = "batch" /\ req[r].pc = "rank"
CopyFits(r) ==
  req[r] # NoRequest => \A m \in Members \ crossed : req[r].old[m] # NoRow =>
    row[m] = IF Committed(r) THEN req[r].new[m] ELSE req[r].old[m]
CopyInv == \A r \in Slots : CopyFits(r)

\* The rank history explains the rank.
ChainInv == \A m \in Members \ crossed : Explains(ranks[m], Start[m].rank, row[m].rank)

\* Who deals with a staged change has read its member, and it is staged still.
StageFits(r) ==
  /\ req[r] # NoRequest => \A s \in req[r].todo \cup req[r].done :
       /\ stages[s] # NoStage /\ stages[s].member = req[r].staged[s].member
       /\ stages[s].member \notin crossed => stages[s].status = "staged"
  /\ req[r].pc = "save" /\ req[r].s # 0 =>
       /\ stages[req[r].s] # NoStage /\ stages[req[r].s].member = req[r].m
       /\ req[r].m \notin crossed => stages[req[r].s].status = "staged"
StageInv ==
  /\ \A s \in Stages : stages[s] = NoStage => executed[s] = 0
  /\ \A s \in Stages : stages[s] # NoStage /\ executed[s] # 0 /\ stages[s].member \notin crossed
       => stages[s].status = "finalized"
  /\ \A r \in Slots : StageFits(r)

\* Who is about to save a leader has the other leaders of the team in hand; of two who
\* are, one did not ask.
Saving(r) == req[r].pc = "commit" /\ req[r].op = "edit"
Crowning(r) == Saving(r) /\ req[r].new[req[r].m].title = "TL"
TitleFits(r) ==
  Crowning(r) /\ req[r].m \notin crossed \cup unguarded =>
    \A o \in Members \ (crossed \cup moved \cup unguarded \cup {req[r].m}) :
      row[o].team = req[r].new[req[r].m].team /\ row[o].title = "TL"
        => row[o].status = "separated" \/ req[r].new[o] # NoRow
TitleInv ==
  /\ \A r \in Slots : TitleFits(r)
  /\ \A r, s \in Slots : r # s /\ Crowning(r) /\ Crowning(s)
       => req[r].m \in unguarded \/ req[s].m \in unguarded

\* The group of the rank: the record's, or that of the request which has synchronised it.
Writes(r, m) == req[r] # NoRequest /\ req[r].new[m] # NoRow
Syncing(r, m) == req[r].pc = "rank" /\ req[r].m = m
RankFits(m) ==
  /\ (\A r \in Slots : ~Writes(r, m)) => rankGroups[m] = {row[m].rank}
  /\ \A r \in Slots : Writes(r, m) /\ ~Syncing(r, m)
       => rankGroups[m] = {IF req[r].op = "batch" THEN req[r].old[m].rank ELSE req[r].new[m].rank}
RankGroupInv == faults = 0 => \A m \in Members \ crossed : RankFits(m)

\* The group of the team, during a renaming and while a member's profile is saved.
Migrates(r) == req[r].pc = "migrate"
Drops(r) == req[r].pc = "drop"
Renames(r) == Migrates(r) \/ Drops(r)
Settled(r, m) == req[r].m = m => ~Saving(r) /\ (req[r] # NoRequest => req[r].op # "move")
TeamFits(m) ==
  (\A r \in Slots : Settled(r, m)) =>
    /\ (\A r \in Slots : ~Renames(r)) => teamGroups[m] = {row[m].team}
    /\ \A r \in Slots : Renames(r) =>
         /\ row[m].team # req[r].from
         /\ \/ teamGroups[m] = {row[m].team}
            \/ /\ row[m].team = req[r].to
               /\ teamGroups[m] = IF Migrates(r) THEN {req[r].from} ELSE {req[r].from, req[r].to}
TeamGroupInv ==
  faults = 0 =>
    /\ \A r, s \in Slots : r # s /\ Renames(r) /\ Renames(s) => crossed = Members
    /\ \A r \in Slots : Saving(r) /\ req[r].m \notin crossed
         => teamGroups[req[r].m] = {req[r].new[req[r].m].team} /\ \A s \in Slots : ~Renames(s)
    /\ \A m \in Members \ (crossed \cup moved) : TeamFits(m)

\* The group Leaders, unless a promotion was logged.
LeaderFits(m) ==
  /\ (\A r \in Slots : Saving(r) => req[r].new[m] = NoRow) /\ NeverUp(ranks[m])
       /\ Leads(row[m].rank, row[m].title) => m \in leaders
  /\ \A r \in Slots : Saving(r) /\ req[r].new[m] # NoRow
       /\ Leads(req[r].new[m].rank, req[r].new[m].title) => m \in leaders
LeadersInv == faults = 0 => \A m \in Members \ crossed : LeaderFits(m)

RosterInv ==
  /\ TypeOK /\ RequestsInv /\ TablesInv /\ AloneInv /\ CopyInv /\ ChainInv /\ StageInv
  /\ HoldsAreKept /\ OneLeader /\ TitleInv /\ RankGroupInv /\ TeamGroupInv /\ LeadersInv

-----------------------------------------------------------------------------
(***************************************************************************)
(* Records, logs and numbers.                                              *)
(***************************************************************************)
LEMMA RankNumbers == Ranks \subseteq Nat /\ 1 \in Ranks /\ \A k \in Ranks : k > 0
BY RanksAssumption DEF Ranks

LEMMA RowFields ==
  ASSUME NEW x \in RowType
  PROVE  /\ x # NoRow /\ x.rank \in Ranks /\ x.rank \in Nat
         /\ x.status \in {"recruit", "active", "separated"}
         /\ x.team \in Teams /\ x.title \in {"none", "TL"} /\ x.hold \in BOOLEAN
         /\ x = [rank |-> x.rank, status |-> x.status, team |-> x.team, title |-> x.title,
                 hold |-> x.hold]
<1>1. x.rank \in Ranks /\ x.rank > 0 /\ x.rank \in Nat
  BY RankNumbers DEF RowType
<1>2. NoRow.rank = 0
  BY DEF NoRow
<1>3. x # NoRow
  BY <1>1, <1>2
<1>4. QED
  BY <1>1, <1>3 DEF RowType

LEMMA StageFields ==
  ASSUME NEW x \in StageType
  PROVE  /\ x # NoStage /\ x.member \in Members /\ x.from \in Ranks /\ x.to \in Ranks
         /\ x.up \in BOOLEAN /\ x.status \in {"staged", "finalized", "cancelled"}
BY DEF StageType, NoStage

LEMMA PatchedIs ==
  ASSUME NEW old \in RowType, NEW new \in RowType
  PROVE  /\ Patched(old, new) \in RowType
         /\ Patched(old, new).rank = new.rank /\ Patched(old, new).team = new.team
         /\ Patched(old, new).title = new.title /\ Patched(old, new).hold = new.hold
         /\ Patched(old, new).status = "separated" <=> new.status = "separated"
BY RowFields DEF Patched, RowType

LEMMA WithRankIs ==
  ASSUME NEW old \in RowType, NEW k \in Ranks
  PROVE  /\ WithRank(old, k) \in RowType /\ WithRank(old, k).rank = k
         /\ Same(old, WithRank(old, k))
<1> DEFINE n == [old EXCEPT !.rank = k]
<1>1. n \in RowType /\ n.rank = k /\ n.team = old.team /\ n.title = old.title /\ n.hold = old.hold
      /\ n.status = old.status
  BY DEF RowType
<1>2. WithRank(old, k) = Patched(old, n)
  BY DEF WithRank
<1> HIDE DEF n
<1>3. QED
  BY <1>1, <1>2, PatchedIs DEF Same

LEMMA MergeIs ==
  ASSUME NEW now \in RowType, NEW old \in RowType, NEW new \in RowType
  PROVE  Merge(now, old, new) \in RowType /\ (now = old => Merge(now, old, new) = new)
<1>1. DOMAIN now = {"rank", "status", "team", "title", "hold"}
  BY DEF RowType
<1> DEFINE u == Merge(now, old, new)
<1>2. u = [f \in {"rank", "status", "team", "title", "hold"} |->
             IF new[f] = old[f] THEN now[f] ELSE new[f]]
  BY <1>1 DEF Merge
<1>3. u = [rank |-> IF new.rank = old.rank THEN now.rank ELSE new.rank,
           status |-> IF new.status = old.status THEN now.status ELSE new.status,
           team |-> IF new.team = old.team THEN now.team ELSE new.team,
           title |-> IF new.title = old.title THEN now.title ELSE new.title,
           hold |-> IF new.hold = old.hold THEN now.hold ELSE new.hold]
  BY <1>2
<1> HIDE DEF u
<1>4. u \in RowType
  BY <1>3 DEF RowType
<1>5. now = old => u = new
  BY <1>3, RowFields
<1>6. QED
  BY <1>4, <1>5 DEF u

LEMMA LogsOfOne ==
  ASSUME NEW a \in Ranks, NEW b \in Ranks
  PROVE  /\ << <<a, b>> >> \in Seq(Ranks \X Ranks) /\ Explains(<< <<a, b>> >>, a, b)
         /\ NeverUp(<< <<a, b>> >>) => b <= a
BY DEF Explains, NeverUp

LEMMA LogsGrow ==
  ASSUME NEW l \in Seq(Ranks \X Ranks), NEW a \in Ranks, NEW b \in Ranks, NEW c \in Ranks,
         Explains(l, a, b)
  PROVE  /\ Append(l, <<b, c>>) \in Seq(Ranks \X Ranks) /\ Explains(Append(l, <<b, c>>), a, c)
         /\ NeverUp(Append(l, <<b, c>>)) => NeverUp(l) /\ c <= b
<1> DEFINE u == Append(l, <<b, c>>)
<1>1. /\ u \in Seq(Ranks \X Ranks) /\ u # << >> /\ Len(u) = Len(l) + 1
      /\ \A i \in 1..Len(l) : u[i] = l[i]
      /\ u[Len(l) + 1] = <<b, c>> /\ Len(l) \in Nat
  BY AppendProperties
<1>2. l = << >> => Len(l) = 0
  OBVIOUS
<1>3. l # << >> => Len(l) >= 1
  BY EmptySeq, <1>1
<1> HIDE DEF u
<1>4. ASSUME l = << >> PROVE Explains(u, a, c)
  <2>1. a = b
    BY <1>4 DEF Explains
  <2>2. QED
    BY <1>1, <1>2, <1>4, <2>1 DEF Explains
<1>5. ASSUME l # << >> PROVE Explains(u, a, c)
  <2>1. l[1][1] = a /\ l[Len(l)][2] = b /\ \A i \in 1..(Len(l) - 1) : l[i + 1][1] = l[i][2]
    BY <1>5 DEF Explains
  <2>2. u[1][1] = a /\ u[Len(u)][2] = c
    BY <1>1, <1>3, <1>5, <2>1
  <2>3. ASSUME NEW i \in 1..(Len(u) - 1) PROVE u[i + 1][1] = u[i][2]
    <3>1. CASE i = Len(l)
      BY <1>1, <2>1, <3>1
    <3>2. CASE i # Len(l)
      <4>1. i \in 1..(Len(l) - 1) /\ i \in 1..Len(l) /\ i + 1 \in 1..Len(l)
        BY <1>1, <3>2
      <4>2. QED
        BY <1>1, <2>1, <4>1
    <3>3. QED
      BY <3>1, <3>2
  <2>4. QED
    BY <1>1, <2>2, <2>3 DEF Explains
<1>6. NeverUp(u) => NeverUp(l) /\ c <= b
  BY <1>1 DEF NeverUp
<1>7. QED
  BY <1>1, <1>4, <1>5, <1>6 DEF u

LEMMA LogsJoin ==
  ASSUME NEW l \in Seq(Ranks \X Ranks), NEW n \in Seq(Ranks \X Ranks),
         NEW a \in Ranks, NEW b \in Ranks, NEW c \in Ranks
  PROVE  /\ l \o n \in Seq(Ranks \X Ranks)
         /\ Explains(l, a, b) /\ Explains(n, b, c) => Explains(l \o n, a, c)
         /\ NeverUp(l \o n) => NeverUp(l) /\ NeverUp(n)
         /\ l \o << >> = l
<1> DEFINE u == l \o n
<1>1. /\ u \in Seq(Ranks \X Ranks) /\ Len(u) = Len(l) + Len(n) /\ Len(l) \in Nat /\ Len(n) \in Nat
      /\ \A i \in 1..(Len(l) + Len(n)) : u[i] = IF i <= Len(l) THEN l[i] ELSE n[i - Len(l)]
      /\ l \o << >> = l /\ << >> \o n = n
  BY ConcatProperties, ConcatEmptySeq
<1>2. (l # << >> => Len(l) >= 1) /\ (n # << >> => Len(n) >= 1)
  BY EmptySeq, <1>1
<1>3. n = << >> => u = l
  BY <1>1
<1>4. l = << >> => u = n
  BY <1>1
<1> HIDE DEF u
<1>8. ASSUME NEW i \in 1..Len(n), NEW j, j = i + Len(l)
      PROVE  j \in 1..Len(u) /\ u[j] = n[i]
  <2>1. j \in 1..(Len(l) + Len(n)) /\ ~(j <= Len(l)) /\ j - Len(l) = i
    BY <1>1, <1>8
  <2>2. QED
    BY <1>1, <2>1
<1>5. NeverUp(u) => NeverUp(l) /\ NeverUp(n)
  <2> SUFFICES ASSUME NeverUp(u) PROVE NeverUp(l) /\ NeverUp(n)
    OBVIOUS
  <2>1. NeverUp(l)
    BY <1>1 DEF NeverUp
  <2>2. ASSUME NEW i \in 1..Len(n) PROVE n[i][2] <= n[i][1]
    <3>1. i + Len(l) \in 1..Len(u) /\ u[i + Len(l)] = n[i]
      BY <1>8
    <3>2. QED
      BY <3>1 DEF NeverUp
  <2>3. QED
    BY <2>1, <2>2 DEF NeverUp
<1>6. ASSUME Explains(l, a, b), Explains(n, b, c) PROVE Explains(u, a, c)
  <2>1. CASE l = << >>
    BY <1>4, <1>6, <2>1 DEF Explains
  <2>2. CASE n = << >>
    BY <1>3, <1>6, <2>2 DEF Explains
  <2>3. CASE l # << >> /\ n # << >>
    <3>1. l[1][1] = a /\ l[Len(l)][2] = b /\ \A i \in 1..(Len(l) - 1) : l[i + 1][1] = l[i][2]
      BY <1>6, <2>3 DEF Explains
    <3>2. n[1][1] = b /\ n[Len(n)][2] = c /\ \A i \in 1..(Len(n) - 1) : n[i + 1][1] = n[i][2]
      BY <1>6, <2>3 DEF Explains
    <3>3. u # << >> /\ u[1] = l[1] /\ u[Len(u)] = n[Len(n)]
      <4>1. Len(n) \in 1..Len(n) /\ Len(u) = Len(n) + Len(l) /\ Len(u) # 0
        BY <1>1, <1>2, <2>3
      <4>2. u[Len(u)] = n[Len(n)]
        BY <1>8, <4>1
      <4>3. u[1] = l[1]
        BY <1>1, <1>2, <2>3
      <4>4. QED
        BY <4>1, <4>2, <4>3
    <3>4. ASSUME NEW i \in 1..(Len(u) - 1) PROVE u[i + 1][1] = u[i][2]
      <4>1. CASE i < Len(l)
        <5>1. i \in 1..(Len(l) - 1) /\ u[i] = l[i] /\ u[i + 1] = l[i + 1]
          BY <1>1, <4>1
        <5>2. QED
          BY <3>1, <5>1
      <4>2. CASE i = Len(l)
        <5>1. u[i] = l[Len(l)]
          BY <1>1, <1>2, <2>3, <4>2
        <5>3. 1 \in 1..Len(n) /\ i + 1 = 1 + Len(l)
          BY <1>1, <1>2, <2>3, <4>2
        <5>4. u[i + 1] = n[1]
          BY <1>8, <5>3
        <5>2. QED
          BY <3>1, <3>2, <5>1, <5>4
      <4>3. CASE i > Len(l)
        <5>1. i - Len(l) \in 1..(Len(n) - 1) /\ u[i] = n[i - Len(l)] /\ u[i + 1] = n[i - Len(l) + 1]
          BY <1>1, <4>3
        <5>2. QED
          BY <3>2, <5>1
      <4>4. QED
        BY <1>1, <4>1, <4>2, <4>3
    <3>5. QED
      BY <3>1, <3>2, <3>3, <3>4 DEF Explains
  <2>4. QED
    BY <2>1, <2>2, <2>3
<1>7. QED
  BY <1>1, <1>5, <1>6 DEF u

LEMMA MinIsLeast ==
  ASSUME NEW S \in SUBSET Stages, S # {}
  PROVE  Min(S) \in S
<1> DEFINE R == OpToRel(<, Nat)
<1>1. S \subseteq Nat
  BY BoundsAssumption DEF Stages
<1>2. IsWellFoundedOn(R, Nat)
  BY NatLessThanWellFounded
<1>3. \A d, e \in Nat : ~(<<d, e>> \in R) => e <= d
  BY DEF OpToRel
<1> HIDE DEF R
<1>4. PICK e \in S : \A d \in S : ~(<<d, e>> \in R)
  BY <1>1, <1>2, WFMin
<1>5. \A d \in S : e <= d
  BY <1>1, <1>3, <1>4
<1>6. QED
  BY <1>5 DEF Min

-----------------------------------------------------------------------------
(***************************************************************************)
(* What one request leaves as it is for the others.                        *)
(***************************************************************************)
Others(r) == \A s \in Slots : s # r => req'[s] = req[s]
TablesSame == UNCHANGED <<row, ranks, stages, executed, moved, breached>>
RowsSame == UNCHANGED <<row, ranks, moved, breached>>
LEMMA RowsAreSame == TablesSame => RowsSame
BY DEF TablesSame, RowsSame

LEMMA RequestFields ==
  ASSUME RequestsInv, NEW r \in Slots, req[r] # NoRequest
  PROVE  /\ req[r] \in RequestType /\ Shape(req[r]) /\ req[r].pc \in Pcs /\ req[r].op \in Ops
         /\ req[r].todo \subseteq Stages /\ req[r].done \subseteq Stages
         /\ req[r].staged \in [Stages -> StageType \cup {NoStage}]
         /\ req[r].old \in [Members -> RowType \cup {NoRow}]
         /\ req[r].new \in [Members -> RowType \cup {NoRow}]
         /\ req[r].log \in [Members -> Seq(Ranks \X Ranks)]
         /\ req[r].s \in Stages \cup {0}
BY DEF RequestsInv, Requests, RequestType

\* Who is about to write a member, or to deal with a staged change of it, has read it.
LEMMA WritersRead ==
  ASSUME RequestsInv, NEW r \in Slots, req[r] # NoRequest
  PROVE  /\ \A m \in Members : req[r].old[m] # NoRow => m \in HasRead(r)
         /\ \A m \in Members : req[r].new[m] # NoRow => m \in HasRead(r)
         /\ \A s \in req[r].todo : req[r].staged[s].member \in HasRead(r)
         /\ \A s \in req[r].done : req[r].staged[s].member \in HasRead(r)
<1>1. Shape(req[r]) /\ req[r].done \subseteq Stages /\ req[r].todo \subseteq Stages
      /\ req[r].staged \in [Stages -> StageType \cup {NoStage}]
  BY RequestFields
<1>2. \A m \in Members : req[r].old[m] # NoRow => m \in HasRead(r)
  BY DEF HasRead
<1>3. \A s \in req[r].todo : req[r].staged[s].member \in HasRead(r)
  BY DEF HasRead
<1>4. \A m \in Members : req[r].new[m] # NoRow => m \in HasRead(r)
  BY <1>1, <1>2 DEF Shape, WriteShape
<1>5. ASSUME NEW s \in req[r].done PROVE req[r].staged[s].member \in HasRead(r)
  <2>1. FinalizeShape(req[r])
    BY <1>1 DEF Shape
  <2>2. req[r].staged[s].member \in Members /\ req[r].old[req[r].staged[s].member] # NoRow
    BY <1>1, <2>1, StageFields DEF FinalizeShape
  <2>3. QED
    BY <1>2, <2>2
<1>6. QED
  BY <1>2, <1>3, <1>4, <1>5

LEMMA SharingIs ==
  ASSUME NEW r \in Slots, NEW ms, NEW m \in ms, m \notin Sharing(r, ms)
  PROVE  \A s \in Slots : s # r => m \notin HasRead(s)
BY DEF Sharing

LEMMA AloneFrame ==
  ASSUME AloneInv, NEW r \in Slots, Others(r), crossed \subseteq crossed',
         \A m \in HasRead(r)' : m \notin crossed' =>
           m \in HasRead(r) \/ \A s \in Slots : s # r => m \notin HasRead(s)
  PROVE  AloneInv'
<1>1. ASSUME NEW s \in Slots, s # r PROVE HasRead(s)' = HasRead(s)
  <2>1. PICK q : q = req[s] /\ q = req'[s]
    BY <1>1 DEF Others
  <2>2. HasRead(s) = IF q = NoRequest THEN {}
                     ELSE {m \in Members : q.old[m] # NoRow} \cup {q.staged[i].member : i \in q.todo}
    BY <2>1 DEF HasRead
  <2>3. HasRead(s)' = IF q = NoRequest THEN {}
                      ELSE {m \in Members : q.old[m] # NoRow} \cup {q.staged[i].member : i \in q.todo}
    BY <2>1 DEF HasRead
  <2>4. QED
    BY <2>2, <2>3
<1>2. ASSUME NEW s \in Slots, NEW t \in Slots, s # t PROVE HasRead(s)' \cap HasRead(t)' \subseteq crossed'
  <2>1. CASE s # r /\ t # r
    BY <1>1, <1>2, <2>1 DEF AloneInv
  <2>2. CASE s = r
    BY <1>1, <1>2, <2>2 DEF AloneInv
  <2>3. CASE t = r
    BY <1>1, <1>2, <2>3 DEF AloneInv
  <2>4. QED
    BY <2>1, <2>2, <2>3
<1>3. QED
  BY <1>2 DEF AloneInv

LEMMA CopyFrame ==
  ASSUME RequestsInv, CopyInv, NEW r \in Slots, Others(r), crossed \subseteq crossed', CopyFits(r)',
         \A m \in Members : m \notin crossed' =>
           row'[m] = row[m] \/ \A s \in Slots : s # r => m \notin HasRead(s)
  PROVE  CopyInv'
<1>1. ASSUME NEW s \in Slots, s # r PROVE CopyFits(s)'
  <2>1. req'[s] = req[s]
    BY <1>1 DEF Others
  <2>2. SUFFICES ASSUME req[s] # NoRequest, NEW m \in Members, m \notin crossed', req[s].old[m] # NoRow
                 PROVE  row'[m] = IF Committed(s) THEN req[s].new[m] ELSE req[s].old[m]
    BY <2>1 DEF CopyFits, Committed
  <2>3. m \in HasRead(s)
    BY <2>2, WritersRead
  <2>4. row'[m] = row[m] /\ m \notin crossed
    BY <1>1, <2>2, <2>3
  <2>5. QED
    BY <2>2, <2>4 DEF CopyInv, CopyFits
<1>2. QED
  BY <1>1 DEF CopyInv

LEMMA StageFrame ==
  ASSUME StageInv, stages' = stages, executed' = executed, NEW r \in Slots, Others(r),
         crossed \subseteq crossed', StageFits(r)'
  PROVE  StageInv'
<1>1. ASSUME NEW s \in Slots, s # r PROVE StageFits(s)'
  <2>1. req'[s] = req[s]
    BY <1>1 DEF Others
  <2>2. StageFits(s)
    BY DEF StageInv
  <2>3. QED
    BY <2>1, <2>2 DEF StageFits
<1>2. QED
  BY <1>1 DEF StageInv

LEMMA TitleFrame ==
  ASSUME TitleInv, RowsSame, NEW r \in Slots, Others(r), crossed \subseteq crossed',
         unguarded \subseteq unguarded', TitleFits(r)',
         Crowning(r)' => req'[r].m \in unguarded' \/ \A s \in Slots : s # r => ~Crowning(s)
  PROVE  TitleInv'
<1>1. row' = row /\ moved' = moved
  BY DEF RowsSame
<1>2. \A s \in Slots : s # r => (Crowning(s)' <=> Crowning(s)) /\ req'[s] = req[s]
  BY DEF Others, Crowning, Saving
<1>3. ASSUME NEW s \in Slots, s # r PROVE TitleFits(s)'
  <2>1. TitleFits(s)
    BY DEF TitleInv
  <2>2. QED
    BY <1>1, <1>2, <1>3, <2>1 DEF TitleFits
<1>4. ASSUME NEW s \in Slots, NEW t \in Slots, s # t, Crowning(s)', Crowning(t)'
      PROVE  req'[s].m \in unguarded' \/ req'[t].m \in unguarded'
  <2>1. CASE s # r /\ t # r
    BY <1>2, <1>4, <2>1 DEF TitleInv
  <2>2. CASE s = r
    BY <1>2, <1>4, <2>2
  <2>3. CASE t = r
    BY <1>2, <1>4, <2>3
  <2>4. QED
    BY <2>1, <2>2, <2>3
<1>5. QED
  BY <1>3, <1>4 DEF TitleInv

LEMMA TablesFrame ==
  ASSUME ChainInv, HoldsAreKept, OneLeader, RowsSame, crossed \subseteq crossed',
         unguarded \subseteq unguarded'
  PROVE  ChainInv' /\ HoldsAreKept' /\ OneLeader'
BY DEF ChainInv, HoldsAreKept, OneLeader, RowsSame

LEMMA RankFrame ==
  ASSUME RankGroupInv, crossed \subseteq crossed', NEW r \in Slots, Others(r), faults' = 0 => faults = 0,
         faults' = 0 => \A m \in Members : m \notin crossed' =>
           \/ RankFits(m)'
           \/ /\ rankGroups'[m] = rankGroups[m] /\ row'[m].rank = row[m].rank
              /\ Writes(r, m)' <=> Writes(r, m)
              /\ Writes(r, m)' /\ ~Syncing(r, m)' =>
                   /\ ~Syncing(r, m) /\ req'[r].op = req[r].op
                   /\ req'[r].old[m] = req[r].old[m] /\ req'[r].new[m] = req[r].new[m]
  PROVE  RankGroupInv'
<1> SUFFICES ASSUME faults' = 0, NEW m \in Members, m \notin crossed', ~RankFits(m)'
             PROVE  RankFits(m)'
  BY DEF RankGroupInv
<1>1. RankFits(m)
  BY DEF RankGroupInv
<1>2. \A s \in Slots : s # r => req'[s] = req[s] /\ (Writes(s, m)' <=> Writes(s, m))
                                /\ (Syncing(s, m)' <=> Syncing(s, m))
  BY DEF Others, Writes, Syncing
<1>3. QED
  BY <1>1, <1>2 DEF RankFits

LEMMA TeamFrame ==
  ASSUME TeamGroupInv, crossed \subseteq crossed', crossed' \subseteq Members, NEW r \in Slots,
         Others(r), faults' = 0 => faults = 0,
         row' = row, moved' = moved, teamGroups' = teamGroups, ~Saving(r)', ~Saving(r), ~Renames(r),
         ~Renames(r)', \A m \in Members : Settled(r, m)' => Settled(r, m)
  PROVE  TeamGroupInv'
<1> SUFFICES ASSUME faults' = 0 PROVE TeamGroupInv'
  BY DEF TeamGroupInv
<1>1. \A s \in Slots : s # r => /\ req'[s] = req[s] /\ (Saving(s)' <=> Saving(s))
                                /\ (Renames(s)' <=> Renames(s)) /\ (Migrates(s)' <=> Migrates(s))
                                /\ \A m \in Members : Settled(s, m)' <=> Settled(s, m)
  BY DEF Others, Saving, Renames, Migrates, Drops, Settled
<1>2. \A s, t \in Slots : s # t /\ Renames(s)' /\ Renames(t)' => crossed' = Members
  BY <1>1 DEF TeamGroupInv
<1>3. \A s \in Slots : Saving(s)' /\ req'[s].m \notin crossed'
        => teamGroups'[req'[s].m] = {req'[s].new[req'[s].m].team} /\ \A t \in Slots : ~Renames(t)'
  BY <1>1 DEF TeamGroupInv
<1>4. ASSUME NEW m \in Members, m \notin crossed', m \notin moved' PROVE TeamFits(m)'
  <2>1. TeamFits(m)
    BY <1>4 DEF TeamGroupInv
  <2>2. QED
    BY <1>1, <2>1 DEF TeamFits
<1>5. QED
  BY <1>2, <1>3, <1>4 DEF TeamGroupInv

LEMMA LeadersFrame ==
  ASSUME LeadersInv, crossed \subseteq crossed', NEW r \in Slots, Others(r), faults' = 0 => faults = 0,
         \A m \in Members : row'[m].rank = row[m].rank /\ row'[m].title = row[m].title,
         ranks' = ranks, leaders' = leaders, ~Saving(r), ~Saving(r)'
  PROVE  LeadersInv'
<1>1. \A s \in Slots : s # r => req'[s] = req[s] /\ (Saving(s)' <=> Saving(s))
  BY DEF Others, Saving
<1>2. ASSUME faults' = 0, NEW m \in Members, m \notin crossed' PROVE LeaderFits(m)'
  <2>1. LeaderFits(m)
    BY <1>2 DEF LeadersInv
  <2>2. QED
    BY <1>1, <2>1 DEF LeaderFits, Leads
<1>3. QED
  BY <1>2 DEF LeadersInv

-----------------------------------------------------------------------------
(***************************************************************************)
(* A request begins.                                                       *)
(***************************************************************************)
LEMMA BeginIs ==
  ASSUME RequestsInv, TablesInv, NEW q \in Requests, NEW ms \in SUBSET Members, Begin(q, ms)
  PROVE  \E r \in Slots :
           /\ req[r] = NoRequest /\ req'[r] = q /\ Others(r) /\ RequestsInv'
           /\ crossed \subseteq crossed' /\ crossed' \subseteq Members
           /\ Sharing(r, ms) \subseteq crossed'
           /\ q.op = "rename" /\ Renaming => crossed' = Members
           /\ begun \in 0..MaxRequests => begun' \in 0..MaxRequests
<1>1. PICK r \in Slots : /\ req[r] = NoRequest /\ req' = [req EXCEPT ![r] = q]
                         /\ crossed' = crossed \cup Sharing(r, ms)
                                         \cup {m \in Members : q.op = "rename" /\ Renaming}
  BY DEF Begin
<1>2. req'[r] = q /\ Others(r) /\ RequestsInv'
  BY <1>1 DEF Others, RequestsInv
<1>3. Sharing(r, ms) \subseteq Members
  BY DEF Sharing
<1>4. begun \in 0..MaxRequests => begun' \in 0..MaxRequests
  BY BoundsAssumption DEF Begin
<1>5. QED
  BY <1>1, <1>2, <1>3, <1>4 DEF TablesInv

LEMMA BeginKept ==
  ASSUME RosterInv, NEW q \in Requests, NEW ms \in SUBSET Members, Begin(q, ms), AtDesk,
         q.op # "rename", ~(q.op = "edit" /\ q.pc = "commit"), ~(q.op = "batch" /\ q.pc = "rank"),
         \A m \in Members : q.old[m] # NoRow => m \in ms /\ q.old[m] = row[m],
         \A s \in q.todo \cup q.done :
           /\ q.staged[s].member \in ms
           /\ stages[s] # NoStage /\ stages[s].member = q.staged[s].member
           /\ stages[s].status = "staged",
         q.pc = "save" /\ q.s # 0 =>
           /\ stages[q.s] # NoStage /\ stages[q.s].member = q.m /\ stages[q.s].status = "staged",
         \A m \in Members : q.new[m] # NoRow =>
           (q.pc = "rank" /\ q.m = m) \/ q.old[m].rank = (IF q.op = "batch" THEN q.old[m] ELSE q.new[m]).rank
  PROVE  RosterInv'
<1> USE DEF RosterInv
<1>1. PICK r \in Slots :
           /\ req[r] = NoRequest /\ req'[r] = q /\ Others(r) /\ RequestsInv'
           /\ crossed \subseteq crossed' /\ crossed' \subseteq Members
           /\ Sharing(r, ms) \subseteq crossed'
           /\ begun \in 0..MaxRequests => begun' \in 0..MaxRequests
  BY BeginIs
<1>2. /\ UNCHANGED <<row, ranks, names, stages, rankGroups, teamGroups, leaders, faults>>
      /\ UNCHANGED <<moved, unguarded, executed, breached>> /\ TablesSame
  BY DEF AtDesk, nextcloud, TablesSame
<1>3. TypeOK' /\ TablesInv'
  BY <1>1, <1>2 DEF TypeOK, TablesInv
<1>4. q # NoRequest /\ Shape(q) /\ q \in RequestType
  BY DEF Requests, RequestType, Pcs, NoRequest
<1>5. ~Saving(r) /\ ~Saving(r)' /\ ~Crowning(r)' /\ ~Renames(r) /\ ~Renames(r)' /\ ~Committed(r)'
  <2>1. ~(q.pc \in {"migrate", "drop"})
    BY <1>4 DEF Shape, EditShape, PromoteShape, StageShape, FinalizeShape, MoveShape, RequestType, Ops
  <2>2. QED
    BY <1>1, <2>1 DEF Saving, Crowning, Renames, Migrates, Drops, Committed, NoRequest
<1>6. \A m \in HasRead(r)' : m \in ms
  <2>1. HasRead(r)' = {m \in Members : q.old[m] # NoRow} \cup {q.staged[s].member : s \in q.todo}
    BY <1>1, <1>4 DEF HasRead
  <2>2. QED
    BY <2>1
<1>7. \A m \in ms : m \notin crossed' => \A s \in Slots : s # r => m \notin HasRead(s)
  BY <1>1, SharingIs
<1>8. AloneInv'
  BY <1>1, <1>6, <1>7, AloneFrame
<1>9. CopyInv'
  <2>1. CopyFits(r)'
    BY <1>1, <1>2, <1>5 DEF CopyFits
  <2>2. QED
    BY <1>1, <1>2, <2>1, CopyFrame
<1>10. StageInv'
  <2>1. StageFits(r)'
    BY <1>1, <1>2 DEF StageFits
  <2>2. QED
    BY <1>1, <1>2, <2>1, StageFrame
<1>11. TitleInv'
  <2>1. TitleFits(r)'
    BY <1>5 DEF TitleFits
  <2>2. QED
    BY <1>1, <1>2, <1>5, <2>1, TitleFrame, RowsAreSame
<1>12. ChainInv' /\ HoldsAreKept' /\ OneLeader'
  BY <1>1, <1>2, TablesFrame, RowsAreSame
<1>13. RankGroupInv'
  <2>1. ASSUME faults' = 0, NEW m \in Members, m \notin crossed', Writes(r, m)' PROVE RankFits(m)'
    <3>1. q.new[m] # NoRow /\ q.old[m] # NoRow /\ q.old[m] = row[m] /\ m \in ms
      BY <1>1, <1>4, <2>1 DEF Writes, Shape, WriteShape
    <3>2. \A s \in Slots : s # r => ~Writes(s, m) /\ ~Writes(s, m)'
      BY <1>1, <1>7, <2>1, <3>1, WritersRead DEF Writes, Others
    <3>3. ~Writes(r, m)
      BY <1>1 DEF Writes
    <3>4. rankGroups[m] = {row[m].rank}
      BY <1>1, <1>2, <2>1, <3>2, <3>3 DEF RankGroupInv, RankFits
    <3>5. QED
      BY <1>1, <1>2, <2>1, <3>1, <3>2, <3>4 DEF RankFits, Syncing
  <2>2. \A m \in Members : ~Writes(r, m)' => (Writes(r, m)' <=> Writes(r, m))
    BY <1>1 DEF Writes
  <2>3. QED
    BY <1>1, <1>2, <2>1, <2>2, RankFrame
<1>14. TeamGroupInv'
  <2>1. \A m \in Members : Settled(r, m)
    BY <1>1, <1>5 DEF Settled
  <2>2. QED
    BY <1>1, <1>2, <1>5, <2>1, TeamFrame
<1>15. LeadersInv'
  BY <1>1, <1>2, <1>5, LeadersFrame
<1>16. QED
  BY <1>1, <1>3, <1>8, <1>9, <1>10, <1>11, <1>12, <1>13, <1>14, <1>15

LEMMA IdleIs ==
  /\ Idle.s = 0 /\ Idle.todo = {} /\ Idle.done = {} /\ Idle.page = NoRow
  /\ \A x \in Members : Idle.old[x] = NoRow /\ Idle.new[x] = NoRow /\ Idle.log[x] = << >>
  /\ Idle.old \in [Members -> RowType \cup {NoRow}] /\ Idle.new \in [Members -> RowType \cup {NoRow}]
  /\ Idle.log \in [Members -> Seq(Ranks \X Ranks)]
  /\ Idle.stage = NoStage /\ Idle.staged \in [Stages -> StageType \cup {NoStage}]
  /\ Idle.from = "none" /\ Idle.to = "none"
BY EmptySeq DEF Idle

LEMMA EditBegins ==
  ASSUME RosterInv, NEW m \in Members, BeginEdit(m)
  PROVE  RosterInv'
<1> DEFINE q == [Idle EXCEPT !.pc = "page", !.op = "edit", !.m = m, !.page = row[m]]
<1>1. /\ q.pc = "page" /\ q.op = "edit" /\ q.m = m /\ q.page = row[m] /\ q.s = 0 /\ q.todo = {} /\ q.done = {}
      /\ \A x \in Members : q.old[x] = NoRow /\ q.new[x] = NoRow /\ q.log[x] = << >>
  BY IdleIs DEF Idle
<1>2. row[m] \in RowType
  BY DEF RosterInv, TypeOK
<1>3. q \in RequestType
  BY <1>2, IdleIs DEF Idle, RequestType, Pcs, Ops
<1>4. Begin(q, {}) /\ AtDesk
  BY DEF BeginEdit, AtDesk
<1> HIDE DEF q
<1>5. q \in Requests
  BY <1>1, <1>2, <1>3 DEF Requests, Shape, EditShape, WriteShape
<1>6. QED
  BY <1>1, <1>4, <1>5, BeginKept

LEMMA PromotionBegins ==
  ASSUME RosterInv, NEW m \in Members, NEW k \in Ranks, BeginPromote(m, k) \/ BeginBatch(m, k)
  PROVE  RosterInv'
<1>1. PICK op \in {"promote", "batch"}, pc \in {"rank", "commit"} :
        ~Held(row[m], k) /\ Promotion(op, pc, m, k) /\ AtDesk /\ (op = "promote" <=> pc = "rank")
  BY DEF BeginPromote, BeginBatch
<1>2. row[m] \in RowType /\ row[m] # NoRow
  BY RowFields DEF RosterInv, TypeOK
<1>3. /\ WithRank(row[m], k) \in RowType /\ WithRank(row[m], k).rank = k
      /\ Same(row[m], WithRank(row[m], k)) /\ WithRank(row[m], k) # NoRow
  BY <1>2, WithRankIs, RowFields
<1> DEFINE l == << <<row[m].rank, k>> >>
           q == [Idle EXCEPT !.pc = pc, !.op = op, !.m = m, !.old[m] = row[m],
                             !.new[m] = WithRank(row[m], k), !.log[m] = l]
<1>4. row[m].rank \in Ranks
  BY <1>2, RowFields
<1>5. l \in Seq(Ranks \X Ranks) /\ Explains(l, row[m].rank, k) /\ (NeverUp(l) => k <= row[m].rank)
  BY <1>4, LogsOfOne
<1>6. Begin(q, {m})
  BY <1>1 DEF Promotion
<1> HIDE DEF l
<1>7. /\ q.pc = pc /\ q.op = op /\ q.m = m /\ q.s = 0 /\ q.todo = {} /\ q.done = {}
      /\ q.old = [Idle.old EXCEPT ![m] = row[m]] /\ q.new = [Idle.new EXCEPT ![m] = WithRank(row[m], k)]
      /\ q.log = [Idle.log EXCEPT ![m] = l]
  BY IdleIs DEF Idle
<1>8. /\ q.old[m] = row[m] /\ q.new[m] = WithRank(row[m], k) /\ q.log[m] = l
      /\ \A x \in Members : x # m => q.old[x] = NoRow /\ q.new[x] = NoRow /\ q.log[x] = << >>
      /\ q.old \in [Members -> RowType \cup {NoRow}] /\ q.new \in [Members -> RowType \cup {NoRow}]
      /\ q.log \in [Members -> Seq(Ranks \X Ranks)]
  BY <1>2, <1>3, <1>5, <1>7, IdleIs
<1>9. q \in RequestType
  <2>1. pc \in Pcs /\ op \in Ops
    BY <1>1 DEF Pcs, Ops
  <2>2. q = [Idle EXCEPT !.pc = pc, !.op = op, !.m = m, !.old = q.old, !.new = q.new, !.log = q.log]
    BY DEF Idle
  <2> HIDE DEF q
  <2>3. QED
    BY <1>8, <2>1, <2>2, IdleIs DEF Idle, RequestType
<1> HIDE DEF q
<1>10. q.new[m].rank > q.old[m].rank => ~q.old[m].hold
  BY <1>1, <1>3, <1>8 DEF Held
<1>11. WriteShape(q)
  BY <1>2, <1>3, <1>5, <1>7, <1>8 DEF WriteShape
<1>12. q \in Requests
  BY <1>1, <1>3, <1>7, <1>8, <1>9, <1>10, <1>11 DEF Requests, Shape, PromoteShape
<1>13. QED
  BY <1>1, <1>6, <1>7, <1>8, <1>12, BeginKept

LEMMA StageBegins ==
  ASSUME RosterInv, NEW m \in Members, NEW k \in Ranks, BeginStage(m, k)
  PROVE  RosterInv'
<1> DEFINE i == IF StagedFor(m) = {} THEN 0 ELSE CHOOSE s \in StagedFor(m) : TRUE
           p == Planned(m, row[m].rank, k)
           q == [Idle EXCEPT !.pc = "save", !.op = "stage", !.m = m, !.old[m] = row[m],
                             !.s = i, !.stage = p]
<1>1. row[m] \in RowType /\ row[m] # NoRow /\ row[m].rank \in Ranks
  BY RowFields DEF RosterInv, TypeOK
<1>2. p \in StageType /\ p.status = "staged" /\ p.member = m
  BY <1>1 DEF Planned, StageType
<1>3. i \in Stages \cup {0} /\ (i # 0 => stages[i].member = m /\ stages[i].status = "staged")
  BY DEF StagedFor
<1>4. i # 0 => stages[i] # NoStage
  BY <1>3 DEF NoStage
<1>5. Begin(q, {m}) /\ AtDesk
  BY DEF BeginStage
<1> HIDE DEF i, p
<1>6. /\ q.pc = "save" /\ q.op = "stage" /\ q.m = m /\ q.s = i /\ q.stage = p /\ q.todo = {} /\ q.done = {}
      /\ q.old = [Idle.old EXCEPT ![m] = row[m]] /\ q.new = Idle.new /\ q.log = Idle.log
  BY IdleIs DEF Idle
<1>7. /\ q.old[m] = row[m] /\ \A x \in Members : x # m => q.old[x] = NoRow
      /\ \A x \in Members : q.new[x] = NoRow /\ q.log[x] = << >>
      /\ q.old \in [Members -> RowType \cup {NoRow}]
  BY <1>1, <1>6, IdleIs
<1>8. q \in RequestType
  BY <1>2, <1>3, <1>6, <1>7, IdleIs DEF Idle, RequestType, Pcs, Ops
<1> HIDE DEF q
<1>9. q \in Requests
  BY <1>1, <1>2, <1>6, <1>7, <1>8 DEF Requests, Shape, StageShape, WriteShape
<1>10. QED
  BY <1>3, <1>4, <1>5, <1>6, <1>7, <1>9, BeginKept

LEMMA ChangeBegins ==
  ASSUME RosterInv, NEW s \in Stages, stages[s].status = "staged", AtDesk,
         NEW op \in {"remove", "restage"}, NEW p \in StageType \cup {NoStage},
         op # "remove" => p \in StageType /\ p.status = "staged" /\ p.member = stages[s].member,
         NEW m, m = stages[s].member,
         Begin([Idle EXCEPT !.pc = "save", !.op = op, !.m = m, !.s = s, !.old[m] = row[m], !.stage = p],
               {m})
  PROVE  RosterInv'
<1>1. stages[s] \in StageType /\ stages[s] # NoStage
  BY DEF RosterInv, TypeOK, NoStage
<1>2. m \in Members
  BY <1>1, StageFields
<1>3. row[m] \in RowType /\ row[m] # NoRow
  BY <1>2, RowFields DEF RosterInv, TypeOK
<1> DEFINE q == [Idle EXCEPT !.pc = "save", !.op = op, !.m = m, !.s = s, !.old[m] = row[m], !.stage = p]
<1>5. /\ q.pc = "save" /\ q.op = op /\ q.m = m /\ q.s = s /\ q.stage = p /\ q.todo = {} /\ q.done = {}
      /\ q.old = [Idle.old EXCEPT ![m] = row[m]] /\ q.new = Idle.new /\ q.log = Idle.log
  BY IdleIs DEF Idle
<1>6. /\ q.old[m] = row[m] /\ \A x \in Members : x # m => q.old[x] = NoRow
      /\ \A x \in Members : q.new[x] = NoRow /\ q.log[x] = << >>
      /\ q.old \in [Members -> RowType \cup {NoRow}]
  BY <1>2, <1>3, <1>5, IdleIs
<1>7. q \in RequestType
  BY <1>2, <1>5, <1>6, IdleIs DEF Idle, RequestType, Pcs, Ops
<1>8. Begin(q, {m})
  OBVIOUS
<1> HIDE DEF q
<1>9. s # 0
  BY DEF Stages
<1>10. q \in Requests
  BY <1>2, <1>3, <1>5, <1>6, <1>7, <1>9 DEF Requests, Shape, StageShape, WriteShape
<1>11. QED
  BY <1>1, <1>2, <1>5, <1>6, <1>8, <1>10, BeginKept

LEMMA RemoveBegins ==
  ASSUME RosterInv, NEW s \in Stages, BeginRemove(s)
  PROVE  RosterInv'
<1> DEFINE m == stages[s].member
           o == [[x \in Members |-> NoRow] EXCEPT ![m] = row[m]]
           q == [Idle EXCEPT !.pc = "save", !.op = "remove", !.m = m, !.s = s, !.old = o]
<1>1. [Idle EXCEPT !.pc = "save", !.op = "remove", !.m = m, !.s = s, !.old[m] = row[m], !.stage = NoStage]
      = [Idle EXCEPT !.pc = "save", !.op = "remove", !.m = m, !.s = s, !.old[m] = row[m]]
  <2> HIDE DEF m
  <2>1. [Idle EXCEPT !.pc = "save", !.op = "remove", !.m = m, !.s = s, !.old[m] = row[m]] = q
    BY DEF Idle
  <2>2. [Idle EXCEPT !.pc = "save", !.op = "remove", !.m = m, !.s = s, !.old[m] = row[m],
                     !.stage = NoStage] = [q EXCEPT !.stage = NoStage]
    BY DEF Idle
  <2> HIDE DEF o
  <2>3. q \in [{"pc", "op", "m", "page", "old", "new", "log", "s", "stage", "staged", "todo", "done",
               "from", "to"} -> {q[f] : f \in DOMAIN q}]
    BY DEF Idle
  <2>4. q.stage = NoStage
    BY DEF Idle
  <2> HIDE DEF q
  <2>5. [q EXCEPT !.stage = NoStage] = q
    BY <2>3, <2>4
  <2>6. QED
    BY <2>1, <2>2, <2>5
<1>2. Begin([Idle EXCEPT !.pc = "save", !.op = "remove", !.m = m, !.s = s, !.old[m] = row[m],
                         !.stage = NoStage], {m})
  BY <1>1 DEF BeginRemove
<1>3. stages[s].status = "staged" /\ AtDesk
  BY DEF BeginRemove
<1>4. QED
  BY <1>2, <1>3, ChangeBegins

LEMMA RestageBegins ==
  ASSUME RosterInv, NEW s \in Stages, NEW k \in Ranks, BeginRestage(s, k)
  PROVE  RosterInv'
<1> DEFINE m == stages[s].member
           p == Planned(m, stages[s].from, k)
<1>1. stages[s].status = "staged" /\ AtDesk
      /\ Begin([Idle EXCEPT !.pc = "save", !.op = "restage", !.m = m, !.s = s, !.old[m] = row[m],
                            !.stage = p], {m})
  BY DEF BeginRestage
<1>2. stages[s] \in StageType
  BY <1>1 DEF RosterInv, TypeOK, NoStage
<1>3. p \in StageType /\ p.status = "staged" /\ p.member = m
  BY <1>2, StageFields DEF Planned, StageType
<1>4. QED
  BY <1>1, <1>3, ChangeBegins

LEMMA FinalizeBegins ==
  ASSUME RosterInv, BeginFinalize
  PROVE  RosterInv'
<1> DEFINE q == [Idle EXCEPT !.pc = "next", !.op = "finalize", !.todo = Due, !.staged = stages]
           ms == {stages[s].member : s \in Due}
<1>1. \A s \in Due : s \in Stages /\ stages[s].status = "staged" /\ stages[s] \in StageType
                     /\ stages[s] # NoStage
  BY DEF Due, RosterInv, TypeOK, NoStage
<1>2. ms \subseteq Members
  BY <1>1, StageFields
<1>3. stages \in [Stages -> StageType \cup {NoStage}] /\ Due \subseteq Stages
  BY DEF RosterInv, TablesInv, Due
<1>4. Begin(q, ms) /\ AtDesk
  BY DEF BeginFinalize
<1>5. /\ q.pc = "next" /\ q.op = "finalize" /\ q.s = 0 /\ q.todo = Due /\ q.done = {} /\ q.staged = stages
      /\ \A x \in Members : q.old[x] = NoRow /\ q.new[x] = NoRow /\ q.log[x] = << >>
  BY IdleIs DEF Idle
<1>6. q \in RequestType
  BY <1>3, IdleIs DEF Idle, RequestType, Pcs, Ops
<1>7. \A s \in Due : stages[s].member \in ms
  OBVIOUS
<1> HIDE DEF q, ms
<1>8. q \in Requests
  BY <1>1, <1>5, <1>6 DEF Requests, Shape, FinalizeShape, WriteShape
<1>9. QED
  BY <1>1, <1>2, <1>4, <1>5, <1>7, <1>8, BeginKept

LEMMA MoveBegins ==
  ASSUME RosterInv, NEW m \in Members, NEW t \in Teams, BeginMove(m, t)
  PROVE  RosterInv'
<1>1. row[m] \in RowType /\ row[m] # NoRow /\ row[m].rank \in Ranks /\ row[m].rank \in Nat
  BY RowFields DEF RosterInv, TypeOK
<1> DEFINE n == [row[m] EXCEPT !.team = t]
           q == [Idle EXCEPT !.pc = "team", !.op = "move", !.m = m, !.old[m] = row[m], !.new[m] = n]
<1>2. n \in RowType /\ n.rank = row[m].rank /\ n.team = t
  BY <1>1 DEF RowType
<1>3. n # NoRow /\ n = [row[m] EXCEPT !.team = n.team]
  BY <1>2, RowFields
<1>4. Begin(q, {m}) /\ AtDesk
  BY DEF BeginMove
<1> HIDE DEF n
<1>5. /\ q.pc = "team" /\ q.op = "move" /\ q.m = m /\ q.s = 0 /\ q.todo = {} /\ q.done = {}
      /\ q.old = [Idle.old EXCEPT ![m] = row[m]] /\ q.new = [Idle.new EXCEPT ![m] = n]
      /\ q.log = Idle.log
  BY IdleIs DEF Idle
<1>6. /\ q.old[m] = row[m] /\ q.new[m] = n
      /\ \A x \in Members : x # m => q.old[x] = NoRow /\ q.new[x] = NoRow
      /\ \A x \in Members : q.log[x] = << >>
      /\ q.old \in [Members -> RowType \cup {NoRow}] /\ q.new \in [Members -> RowType \cup {NoRow}]
  BY <1>1, <1>2, <1>5, IdleIs
<1>7. q \in RequestType
  <2>1. q = [Idle EXCEPT !.pc = "team", !.op = "move", !.m = m, !.old = q.old, !.new = q.new]
    BY DEF Idle
  <2> HIDE DEF q
  <2>2. QED
    BY <1>6, <2>1, IdleIs DEF Idle, RequestType, Pcs, Ops
<1> HIDE DEF q
<1>8. WriteShape(q)
  BY <1>1, <1>2, <1>3, <1>5, <1>6 DEF WriteShape, Explains
<1>9. q \in Requests
  BY <1>3, <1>5, <1>6, <1>7, <1>8 DEF Requests, Shape, MoveShape
<1>10. QED
  BY <1>2, <1>4, <1>5, <1>6, <1>9, BeginKept

LEMMA RenameBegins ==
  ASSUME RosterInv, NEW t \in Teams, NEW u \in Teams, BeginRename(t, u)
  PROVE  RosterInv'
<1> USE DEF RosterInv
<1> DEFINE q == [Idle EXCEPT !.pc = RenameOrder[1], !.op = "rename", !.from = t, !.to = u]
<1>1. /\ q.pc = "migrate" /\ q.op = "rename" /\ q.from = t /\ q.to = u /\ q.s = 0
      /\ q.todo = {} /\ q.done = {} /\ t # u
      /\ \A x \in Members : q.old[x] = NoRow /\ q.new[x] = NoRow /\ q.log[x] = << >>
  BY IdleIs DEF Idle, RenameOrder, BeginRename
<1>2. q \in RequestType
  BY IdleIs DEF Idle, RenameOrder, RequestType, Pcs, Ops
<1>3. Begin(q, Members) /\ names' \subseteq Teams
  BY DEF BeginRename, TypeOK
<1>4. /\ row' = [m \in Members |-> IF row[m].team = t THEN [row[m] EXCEPT !.team = u] ELSE row[m]]
      /\ unguarded' = unguarded \cup {m \in Members : row[m].team = u}
      /\ UNCHANGED <<ranks, stages, rankGroups, teamGroups, leaders, faults, moved, executed, breached>>
  BY DEF BeginRename, nextcloud
<1> HIDE DEF q
<1>5. q \in Requests
  BY <1>1, <1>2 DEF Requests, Shape, RenameShape, WriteShape
<1>6. PICK r \in Slots :
           /\ req[r] = NoRequest /\ req'[r] = q /\ Others(r) /\ RequestsInv'
           /\ crossed \subseteq crossed' /\ crossed' \subseteq Members
           /\ Sharing(r, Members) \subseteq crossed'
           /\ Renaming => crossed' = Members
           /\ begun \in 0..MaxRequests => begun' \in 0..MaxRequests
  BY <1>1, <1>3, <1>5, BeginIs
<1>7. \A m \in Members : /\ row[m] \in RowType /\ row'[m] \in RowType
                         /\ row'[m].rank = row[m].rank /\ row'[m].title = row[m].title
                         /\ row'[m].status = row[m].status
                         /\ row'[m].team = IF row[m].team = t THEN u ELSE row[m].team
  <2>1. ASSUME NEW m \in Members, NEW n, n = [row[m] EXCEPT !.team = u]
        PROVE  row[m] \in RowType /\ n \in RowType /\ n.rank = row[m].rank /\ n.title = row[m].title
               /\ n.status = row[m].status /\ n.team = u
    BY <2>1 DEF TypeOK, RowType
  <2>2. QED
    BY <1>4, <2>1
<1>8. TypeOK' /\ TablesInv'
  BY <1>3, <1>4, <1>6, <1>7 DEF TypeOK, TablesInv
<1>9. /\ q # NoRequest /\ ~Saving(r) /\ ~Saving(r)' /\ ~Crowning(r)' /\ ~Renames(r)
      /\ Migrates(r)' /\ ~Drops(r)'
  BY <1>1, <1>6 DEF Saving, Crowning, Renames, Migrates, Drops, NoRequest
<1>10. \A m \in Members : m \notin crossed' => \A s \in Slots : s # r => m \notin HasRead(s)
  BY <1>6, SharingIs
<1>11. AloneInv'
  <2>1. HasRead(r)' = {}
    BY <1>1, <1>6, <1>9 DEF HasRead
  <2>2. QED
    BY <1>6, <2>1, AloneFrame
<1>12. CopyInv'
  <2>1. CopyFits(r)'
    BY <1>1, <1>6 DEF CopyFits
  <2>2. QED
    BY <1>6, <1>10, <2>1, CopyFrame
<1>13. StageInv'
  <2>1. StageFits(r)'
    BY <1>1, <1>6 DEF StageFits
  <2>2. QED
    BY <1>4, <1>6, <2>1, StageFrame
<1>14. ChainInv' /\ HoldsAreKept'
  BY <1>4, <1>6, <1>7 DEF ChainInv, HoldsAreKept
<1>15. OneLeader'
  <2> SUFFICES ASSUME NEW m \in Members, NEW o \in Members,
                      m \notin crossed' \cup moved' \cup unguarded',
                      o \notin crossed' \cup moved' \cup unguarded',
                      m # o, row'[m].team = row'[o].team, row'[m].title = "TL", row'[o].title = "TL"
               PROVE  row'[m].status = "separated" \/ row'[o].status = "separated"
    BY DEF OneLeader
  <2>1. row[m].team # u /\ row[o].team # u
    BY <1>4
  <2>2. row[m].team = row[o].team
    BY <1>7, <2>1
  <2>3. m \notin crossed \cup moved \cup unguarded /\ o \notin crossed \cup moved \cup unguarded
    BY <1>4, <1>6
  <2>4. QED
    BY <1>7, <2>2, <2>3 DEF OneLeader
<1>16. TitleInv'
  <2>1. \A s \in Slots : s # r => (Crowning(s)' <=> Crowning(s)) /\ req'[s] = req[s]
    BY <1>6 DEF Others, Crowning, Saving
  <2>2. ASSUME NEW s \in Slots PROVE TitleFits(s)'
    <3>1. SUFFICES ASSUME Crowning(s)', req'[s].m \notin crossed' PROVE FALSE
      BY DEF TitleFits
    <3>2. s # r /\ Crowning(s) /\ req[s].m \notin crossed'
      BY <1>9, <2>1, <3>1
    <3>3. req[s] # NoRequest /\ req[s].op = "edit" /\ req[s].pc = "commit"
      BY <3>2 DEF Crowning, Saving, NoRequest
    <3>4. EditShape(req[s])
      BY <3>3, RequestFields DEF Shape
    <3>5. req[s].m \in Members /\ req[s].m \in HasRead(s)
      BY <3>3, <3>4, WritersRead DEF EditShape
    <3>6. QED
      BY <1>10, <3>2, <3>5
  <2>3. QED
    BY <1>4, <1>9, <2>1, <2>2 DEF TitleInv
<1>17. RankGroupInv'
  <2>1. \A m \in Members : ~Writes(r, m) /\ ~Writes(r, m)'
    BY <1>1, <1>6 DEF Writes
  <2>2. QED
    BY <1>4, <1>6, <1>7, <2>1, RankFrame
<1>18. TeamGroupInv'
  <2> SUFFICES ASSUME faults' = 0 PROVE TeamGroupInv'
    BY DEF TeamGroupInv
  <2>1. \A s \in Slots : s # r => /\ req'[s] = req[s] /\ (Saving(s)' <=> Saving(s))
                                  /\ (Renames(s)' <=> Renames(s))
                                  /\ \A m \in Members : Settled(s, m)' <=> Settled(s, m)
    BY <1>6 DEF Others, Saving, Renames, Migrates, Drops, Settled
  <2>2. (\E s \in Slots : s # r /\ Renames(s)') => crossed' = Members
    BY <1>6, <2>1 DEF Renames, Migrates, Drops, Renaming
  <2>3. ASSUME NEW s \in Slots, Saving(s)', req'[s].m \notin crossed' PROVE FALSE
    <3>1. s # r /\ req[s] # NoRequest /\ req[s].op = "edit" /\ req[s].pc = "commit"
      BY <1>9, <2>1, <2>3 DEF Saving, NoRequest
    <3>2. EditShape(req[s])
      BY <3>1, RequestFields DEF Shape
    <3>3. req[s].m \in Members /\ req[s].m \in HasRead(s)
      BY <3>1, <3>2, WritersRead DEF EditShape
    <3>4. QED
      BY <1>10, <2>1, <2>3, <3>1, <3>3
  <2>4. ASSUME NEW m \in Members, m \notin crossed', m \notin moved' PROVE TeamFits(m)'
    <3>1. \A s \in Slots : s # r => ~Renames(s) /\ ~Renames(s)'
      BY <2>1, <2>2, <2>4
    <3>2. ASSUME NEW s \in Slots PROVE Settled(s, m)
      <4>1. CASE s = r
        BY <1>6, <1>9, <4>1 DEF Settled
      <4>2. CASE s # r
        <5>1. m \notin HasRead(s)
          BY <1>10, <2>4, <4>2
        <5>2. req[s] # NoRequest => req[s].new[m] = NoRow
          BY <5>1, WritersRead
        <5>3. req[s] # NoRequest => Shape(req[s])
          BY RequestFields
        <5>4. Saving(s) => req[s] # NoRequest
          BY DEF Saving, NoRequest
        <5>5. QED
          BY <5>2, <5>3, <5>4 DEF Settled, Saving, Shape, EditShape, MoveShape
      <4>3. QED
        BY <4>1, <4>2
    <3>3. TeamFits(m) /\ faults = 0
      BY <1>4, <1>6, <2>4 DEF TeamGroupInv
    <3>4. teamGroups'[m] = {row[m].team}
      BY <1>4, <1>9, <3>1, <3>2, <3>3 DEF TeamFits
    <3>5. Renames(r)' /\ req'[r].from = t /\ req'[r].to = u
      BY <1>1, <1>6, <1>9 DEF Renames, Migrates
    <3>6. row'[m].team # t
      BY <1>1, <1>7
    <3>7. \/ teamGroups'[m] = {row'[m].team}
          \/ row'[m].team = u /\ teamGroups'[m] = {t}
      BY <1>7, <3>4
    <3>8. QED
      BY <1>9, <3>1, <3>5, <3>6, <3>7 DEF TeamFits
  <2>5. \A s, v \in Slots : s # v /\ Renames(s)' /\ Renames(v)' => crossed' = Members
    BY <2>2
  <2>6. QED
    BY <2>3, <2>4, <2>5 DEF TeamGroupInv
<1>19. LeadersInv'
  BY <1>4, <1>6, <1>7, <1>9, LeadersFrame
<1>20. QED
  BY <1>6, <1>8, <1>11, <1>12, <1>13, <1>14, <1>15, <1>16, <1>17, <1>18, <1>19

-----------------------------------------------------------------------------
(***************************************************************************)
(* The profile editor, until it is about to save.                          *)
(***************************************************************************)
LEMMA GoesOn ==
  ASSUME RequestsInv, NEW r \in Slots, NEW q \in Requests \cup {NoRequest}, req' = [req EXCEPT ![r] = q]
  PROVE  req'[r] = q /\ Others(r) /\ RequestsInv'
BY DEF RequestsInv, Others

\* The kind of a request by its step.
LEMMA KindOfStep ==
  ASSUME RequestsInv, NEW r \in Slots
  PROVE  /\ req[r] # NoRequest => req[r].pc \in Pcs /\ req[r].op \in Ops
         /\ req[r].pc \in Pcs => req[r] # NoRequest
         /\ req[r].pc \in {"page", "lead"} => req[r].op = "edit"
         /\ req[r].pc = "save" => req[r].op \in {"stage", "remove", "restage"}
         /\ req[r].pc = "next" => req[r].op = "finalize"
         /\ req[r].pc = "team" => req[r].op = "move"
         /\ req[r].pc \in {"migrate", "drop"} => req[r].op = "rename"
         /\ req[r].pc = "rank" => req[r].op \in {"edit", "promote", "batch", "finalize"}
         /\ req[r].pc = "commit" => req[r].op \in {"edit", "promote", "batch", "finalize", "move"}
<1>1. req[r] # NoRequest => req[r].pc \in Pcs /\ req[r].op \in Ops /\ Shape(req[r])
  BY RequestFields
<1>2. req[r].pc \in Pcs => req[r] # NoRequest
  BY DEF Pcs, NoRequest
<1>3. req[r].pc \in {"page", "lead", "save", "next", "team", "migrate", "drop", "rank", "commit"}
      => req[r] # NoRequest
  BY <1>2 DEF Pcs
<1>4. QED
  BY <1>1, <1>2, <1>3 DEF Shape, EditShape, PromoteShape, StageShape, FinalizeShape, MoveShape,
                          RenameShape, Ops

LEMMA FormsAreRows ==
  ASSUME TypeOK, NEW page \in RowType, NEW form \in Forms(page)
  PROVE  form \in RowType
<1>1. page \in RowType /\ names \subseteq Teams
  BY DEF TypeOK
<1>2. \A k \in Ranks : [page EXCEPT !.rank = k] \in RowType
  BY DEF RowType
<1>3. \A t \in {"recruit", "active", "separated"} : [page EXCEPT !.status = t] \in RowType
  BY DEF RowType
<1>4. \A t \in names : [page EXCEPT !.team = t] \in RowType
  BY <1>1 DEF RowType
<1>5. \A t \in {"none", "TL"} : [page EXCEPT !.title = t] \in RowType
  BY DEF RowType
<1>6. [page EXCEPT !.hold = ~@] \in RowType
  BY DEF RowType
<1>7. QED
  BY <1>1, <1>2, <1>3, <1>4, <1>5, <1>6 DEF Forms

\* The step of a request that is not about to save a profile, when the groups of teams
\* come out right.
LEMMA GoesOnKept ==
  ASSUME RosterInv, NEW r \in Slots, req[r] # NoRequest, NEW q \in Requests, req' = [req EXCEPT ![r] = q],
         TypeOK', TablesInv', TablesSame,
         TeamGroupInv', UNCHANGED <<leaders, unguarded>>, faults' = 0 => faults = 0,
         crossed \subseteq crossed', q.op = req[r].op,
         ~Saving(r), ~(q.pc = "commit" /\ q.op = "edit"), ~(q.op = "batch" /\ q.pc = "rank"),
         \A m \in HasRead(r)' : m \notin crossed' =>
           m \in HasRead(r) \/ \A s \in Slots : s # r => m \notin HasRead(s),
         \A m \in Members : q.old[m] # NoRow /\ m \notin crossed' => row[m] = q.old[m],
         StageFits(r)',
         \A m \in Members : m \notin crossed' /\ faults' = 0 =>
           \/ RankFits(m)'
           \/ (rankGroups'[m] = rankGroups[m] /\ q.old[m] = req[r].old[m] /\ q.new[m] = req[r].new[m]
                 /\ (Syncing(r, m) => q.new[m] = NoRow \/ (q.pc = "rank" /\ q.m = m)))
  PROVE  RosterInv'
<1> USE DEF RosterInv
<1>1. req'[r] = q /\ Others(r) /\ RequestsInv'
  BY GoesOn
<1>2. row' = row /\ moved' = moved /\ stages' = stages /\ executed' = executed /\ ranks' = ranks
  BY DEF TablesSame
<1>3. /\ ~Saving(r)' /\ ~Crowning(r)' /\ ~Committed(r)' /\ q # NoRequest
  <2>1. q # NoRequest
    BY DEF Requests, RequestType, Pcs, NoRequest
  <2>2. QED
    BY <1>1, <2>1 DEF Saving, Crowning, Committed
<1>4. AloneInv'
  BY <1>1, AloneFrame
<1>5. CopyInv'
  <2>1. CopyFits(r)'
    BY <1>1, <1>2, <1>3 DEF CopyFits
  <2>2. QED
    BY <1>1, <1>2, <2>1, CopyFrame
<1>6. StageInv'
  BY <1>1, <1>2, StageFrame
<1>7. TitleInv'
  <2>1. TitleFits(r)'
    BY <1>3 DEF TitleFits
  <2>2. QED
    BY <1>1, <1>3, <2>1, TitleFrame, RowsAreSame
<1>8. ChainInv' /\ HoldsAreKept' /\ OneLeader'
  BY TablesFrame, RowsAreSame
<1>9. RankGroupInv'
  <2>1. ASSUME NEW m \in Members, m \notin crossed', ~RankFits(m)', faults' = 0
        PROVE  /\ rankGroups'[m] = rankGroups[m]
               /\ Writes(r, m)' <=> Writes(r, m)
               /\ Writes(r, m)' /\ ~Syncing(r, m)' =>
                   /\ ~Syncing(r, m) /\ req'[r].op = req[r].op
                   /\ req'[r].old[m] = req[r].old[m] /\ req'[r].new[m] = req[r].new[m]
    <3>1. /\ rankGroups'[m] = rankGroups[m] /\ q.old[m] = req[r].old[m] /\ q.new[m] = req[r].new[m]
          /\ (Syncing(r, m) => q.new[m] = NoRow \/ (q.pc = "rank" /\ q.m = m))
      BY <2>1
    <3>2. Writes(r, m)' <=> Writes(r, m)
      BY <1>1, <1>3, <3>1 DEF Writes
    <3>3. Writes(r, m)' /\ ~Syncing(r, m)' => ~Syncing(r, m)
      BY <1>1, <1>3, <3>1 DEF Writes, Syncing
    <3>4. QED
      BY <1>1, <3>1, <3>2, <3>3
  <2>2. QED
    BY <1>1, <1>2, <2>1, RankFrame
<1>11. LeadersInv'
  BY <1>1, <1>2, <1>3, LeadersFrame
<1>12. QED
  BY <1>1, <1>4, <1>5, <1>6, <1>7, <1>8, <1>9, <1>11

\* The same, when it leaves teams alone.
LEMMA StepKept ==
  ASSUME RosterInv, NEW r \in Slots, req[r] # NoRequest, NEW q \in Requests, req' = [req EXCEPT ![r] = q],
         TypeOK', TablesInv', TablesSame,
         UNCHANGED <<teamGroups, leaders, unguarded>>, faults' = 0 => faults = 0,
         crossed \subseteq crossed',
         req[r].pc \notin {"migrate", "drop"}, q.pc \notin {"migrate", "drop"},
         ~Saving(r), ~(q.pc = "commit" /\ q.op = "edit"), ~(q.op = "batch" /\ q.pc = "rank"),
         q.op = req[r].op, q.op = "move" => q.m = req[r].m,
         \A m \in HasRead(r)' : m \notin crossed' =>
           m \in HasRead(r) \/ \A s \in Slots : s # r => m \notin HasRead(s),
         \A m \in Members : q.old[m] # NoRow /\ m \notin crossed' => row[m] = q.old[m],
         StageFits(r)',
         \A m \in Members : m \notin crossed' /\ faults' = 0 =>
           \/ RankFits(m)'
           \/ (rankGroups'[m] = rankGroups[m] /\ q.old[m] = req[r].old[m] /\ q.new[m] = req[r].new[m]
                 /\ (Syncing(r, m) => q.new[m] = NoRow \/ (q.pc = "rank" /\ q.m = m)))
  PROVE  RosterInv'
<1>1. req'[r] = q /\ Others(r)
  BY GoesOn DEF RosterInv
<1>2. row' = row /\ moved' = moved
  BY DEF TablesSame
<1>3. ~Saving(r)' /\ ~Renames(r) /\ ~Renames(r)'
  <2>1. ~Renames(r)
    BY DEF Renames, Migrates, Drops
  <2>2. ~Saving(r)'
    BY <1>1 DEF Saving
  <2>3. ~Migrates(r)' /\ ~Drops(r)'
    BY <1>1 DEF Migrates, Drops
  <2>4. ~Renames(r)'
    BY <2>3 DEF Renames
  <2>5. QED
    BY <2>1, <2>2, <2>4
<1>4. \A m \in Members : Settled(r, m)' => Settled(r, m)
  <2>1. q # NoRequest
    BY DEF Requests, RequestType, Pcs, NoRequest
  <2>2. QED
    BY <1>1, <1>3, <2>1 DEF Settled
<1>5. crossed' \subseteq Members
  BY DEF TablesInv
<1>6. TeamGroupInv /\ teamGroups' = teamGroups /\ UNCHANGED <<leaders, unguarded>>
  BY DEF RosterInv
<1>7. TeamGroupInv'
  BY <1>1, <1>2, <1>3, <1>4, <1>5, <1>6, TeamFrame
<1>8. QED
  BY <1>6, <1>7, GoesOnKept

\* A request that ends without a commit.
LEMMA EndsKept ==
  ASSUME RosterInv, NEW r \in Slots, End(r), TypeOK', TablesInv', TablesSame,
         TeamGroupInv', UNCHANGED <<leaders, unguarded>>, faults' = 0 => faults = 0,
         crossed \subseteq crossed', ~Saving(r),
         \A m \in Members : m \notin crossed' /\ faults' = 0 =>
           RankFits(m)' \/ (rankGroups'[m] = rankGroups[m] /\ ~Writes(r, m))
  PROVE  RosterInv'
<1> USE DEF RosterInv
<1>1. req'[r] = NoRequest /\ Others(r) /\ RequestsInv'
  BY GoesOn DEF End
<1>2. row' = row /\ moved' = moved /\ stages' = stages /\ executed' = executed /\ ranks' = ranks
  BY DEF TablesSame
<1>3. ~Saving(r)' /\ ~Crowning(r)' /\ ~Committed(r)' /\ HasRead(r)' = {}
  BY <1>1 DEF Saving, Crowning, Committed, NoRequest, HasRead
<1>4. AloneInv'
  BY <1>1, <1>3, AloneFrame
<1>5. CopyInv'
  <2>1. CopyFits(r)'
    BY <1>1 DEF CopyFits
  <2>2. QED
    BY <1>1, <1>2, <2>1, CopyFrame
<1>6. StageInv'
  <2>1. StageFits(r)'
    BY <1>1 DEF StageFits, NoRequest
  <2>2. QED
    BY <1>1, <1>2, <2>1, StageFrame
<1>7. TitleInv'
  <2>1. TitleFits(r)'
    BY <1>3 DEF TitleFits
  <2>2. QED
    BY <1>1, <1>3, <2>1, TitleFrame, RowsAreSame
<1>8. ChainInv' /\ HoldsAreKept' /\ OneLeader'
  BY TablesFrame, RowsAreSame
<1>9. RankGroupInv'
  <2>1. \A m \in Members : ~Writes(r, m)'
    BY <1>1 DEF Writes
  <2>2. QED
    BY <1>1, <1>2, <2>1, RankFrame
<1>11. LeadersInv'
  BY <1>1, <1>2, <1>3, LeadersFrame
<1>12. QED
  BY <1>1, <1>4, <1>5, <1>6, <1>7, <1>8, <1>9, <1>11

\* The same, when it leaves teams alone.
LEMMA EndKept ==
  ASSUME RosterInv, NEW r \in Slots, End(r), TypeOK', TablesInv', TablesSame,
         UNCHANGED <<teamGroups, leaders, unguarded>>, faults' = 0 => faults = 0,
         crossed \subseteq crossed', ~Saving(r), ~Renames(r), req[r].op # "move",
         \A m \in Members : m \notin crossed' /\ faults' = 0 =>
           RankFits(m)' \/ (rankGroups'[m] = rankGroups[m] /\ ~Writes(r, m))
  PROVE  RosterInv'
<1>1. req'[r] = NoRequest /\ Others(r)
  BY GoesOn DEF End, RosterInv
<1>2. row' = row /\ moved' = moved
  BY DEF TablesSame
<1>3. ~Saving(r)' /\ ~Renames(r)'
  BY <1>1 DEF Saving, Renames, Migrates, Drops, NoRequest
<1>4. \A m \in Members : Settled(r, m)
  BY DEF Settled
<1>5. crossed' \subseteq Members
  BY DEF TablesInv
<1>6. TeamGroupInv /\ teamGroups' = teamGroups /\ UNCHANGED <<leaders, unguarded>>
  BY DEF RosterInv
<1>7. TeamGroupInv'
  BY <1>1, <1>2, <1>3, <1>4, <1>5, <1>6, TeamFrame
<1>8. QED
  BY <1>6, <1>7, EndsKept

LEMMA EditPosted ==
  ASSUME RosterInv, NEW r \in Slots, req[r].pc = "page", NEW form \in Forms(req[r].page), PostEdit(r, form)
  PROVE  RosterInv'
<1>0. PICK p, m, old, new, l :
          /\ p = req[r] /\ m = p.m /\ old = row[m] /\ new = Patched(old, form)
          /\ l = IF new.rank = old.rank THEN << >> ELSE << <<old.rank, new.rank>> >>
  OBVIOUS
<1> USE <1>0
<1> DEFINE q == [p EXCEPT !.pc = IF new.rank = old.rank THEN "lead" ELSE "rank",
                          !.page = NoRow, !.old[m] = old, !.new[m] = new, !.log[m] = l]
<1>1. RequestsInv /\ TypeOK /\ TablesInv
  BY DEF RosterInv
<1>2. p # NoRequest /\ p.op = "edit"
  BY <1>1, KindOfStep DEF Pcs
<1>3. /\ p \in RequestType /\ EditShape(p) /\ WriteShape(p) /\ p.todo = {} /\ p.done = {}
      /\ p.old \in [Members -> RowType \cup {NoRow}]
      /\ p.new \in [Members -> RowType \cup {NoRow}]
      /\ p.log \in [Members -> Seq(Ranks \X Ranks)]
  BY <1>1, <1>2, RequestFields DEF Shape
<1>4. m \in Members /\ p.page \in RowType
      /\ \A x \in Members : p.old[x] = NoRow /\ p.new[x] = NoRow /\ p.log[x] = << >>
  BY <1>3 DEF EditShape, WriteShape
<1>5. old \in RowType /\ old # NoRow /\ old.rank \in Ranks /\ old.rank \in Nat
  BY <1>1, <1>4, RowFields DEF TypeOK
<1>6. new \in RowType /\ new # NoRow /\ new.rank \in Ranks /\ new.rank \in Nat
  BY <1>1, <1>4, <1>5, FormsAreRows, PatchedIs, RowFields
<1>7. l \in Seq(Ranks \X Ranks) /\ Explains(l, old.rank, new.rank) /\ (NeverUp(l) => new.rank <= old.rank)
  <2>1. CASE new.rank = old.rank
    BY <1>6, <2>1 DEF Explains
  <2>2. CASE new.rank # old.rank
    BY <1>5, <1>6, <2>2, LogsOfOne
  <2>3. QED
    BY <2>1, <2>2
<1>8. /\ crossed' = crossed \cup Sharing(r, {m}) /\ req' = [req EXCEPT ![r] = q]
      /\ UNCHANGED <<row, ranks, names, stages, nextcloud, begun, faults>>
      /\ UNCHANGED <<moved, unguarded, executed, breached>>
  BY DEF PostEdit
<1>9. /\ q.pc \in {"lead", "rank"} /\ q.op = "edit" /\ q.m = m /\ q.todo = {} /\ q.done = {}
      /\ q.old = [p.old EXCEPT ![m] = old] /\ q.new = [p.new EXCEPT ![m] = new]
      /\ q.log = [p.log EXCEPT ![m] = l] /\ (q.pc = "lead" <=> new.rank = old.rank)
  BY <1>2, <1>3 DEF RequestType
<1>10. /\ q.old[m] = old /\ q.new[m] = new /\ q.log[m] = l
       /\ \A x \in Members : x # m => q.old[x] = NoRow /\ q.new[x] = NoRow /\ q.log[x] = << >>
       /\ q.old \in [Members -> RowType \cup {NoRow}] /\ q.new \in [Members -> RowType \cup {NoRow}]
       /\ q.log \in [Members -> Seq(Ranks \X Ranks)]
  BY <1>3, <1>4, <1>5, <1>6, <1>7, <1>9
<1>11. q \in RequestType
  <2>1. q = [p EXCEPT !.pc = q.pc, !.page = NoRow, !.old = q.old, !.new = q.new, !.log = q.log]
    BY <1>3 DEF RequestType
  <2> HIDE DEF q
  <2>2. QED
    BY <1>3, <1>9, <1>10, <2>1 DEF RequestType, Pcs
<1> HIDE DEF q
<1>12. q \in Requests
  <2>1. EditShape(q)
    BY <1>4, <1>6, <1>9, <1>10 DEF EditShape
  <2>2. WriteShape(q)
    BY <1>5, <1>6, <1>7, <1>9, <1>10 DEF WriteShape
  <2>3. QED
    BY <1>9, <1>11, <2>1, <2>2 DEF Requests, Shape
<1>13. TypeOK' /\ TablesInv' /\ TablesSame
  <2>1. Sharing(r, {m}) \subseteq Members
    BY <1>4 DEF Sharing
  <2>2. QED
    BY <1>1, <1>8, <2>1 DEF TypeOK, TablesInv, TablesSame, nextcloud
<1>14. req'[r] = q /\ Others(r)
  BY <1>1, <1>8, <1>12, GoesOn
<1>15. \A s \in Slots : m \notin crossed' /\ s # r => m \notin HasRead(s)
  BY <1>8, SharingIs
<1>16. HasRead(r)' \subseteq {m}
  <2>1. q # NoRequest
    BY <1>9 DEF NoRequest
  <2>2. QED
    BY <1>9, <1>10, <1>14, <2>1 DEF HasRead
<1>17. StageFits(r)'
  BY <1>9, <1>14 DEF StageFits
<1>18. m \notin crossed' /\ faults' = 0 => RankFits(m)'
  <2> SUFFICES ASSUME m \notin crossed', faults' = 0 PROVE RankFits(m)'
    OBVIOUS
  <2>1. ASSUME NEW s \in Slots, s # r PROVE ~Writes(s, m) /\ ~Writes(s, m)'
    <3>1. m \notin HasRead(s) /\ req'[s] = req[s]
      BY <1>14, <1>15, <2>1 DEF Others
    <3>2. req[s] # NoRequest => req[s].new[m] = NoRow
      BY <1>1, <1>4, <3>1, WritersRead
    <3>3. QED
      BY <3>1, <3>2 DEF Writes
  <2>2. ~Writes(r, m) /\ m \notin crossed /\ faults = 0
    BY <1>4, <1>8 DEF Writes
  <2>3. rankGroups' = rankGroups /\ rankGroups[m] = {old.rank}
    BY <1>4, <1>8, <2>1, <2>2 DEF RosterInv, RankGroupInv, RankFits, nextcloud
  <2>4. ~Syncing(r, m)' => new.rank = old.rank
    BY <1>9, <1>14 DEF Syncing
  <2>5. Writes(r, m)' /\ req'[r].op = "edit" /\ req'[r].new[m] = new
    BY <1>6, <1>9, <1>10, <1>14 DEF Writes, NoRequest
  <2>6. QED
    BY <2>1, <2>3, <2>4, <2>5 DEF RankFits
<1>19. QED
  <2>1. \A x \in Members : q.old[x] # NoRow => x = m /\ row[x] = q.old[x]
    BY <1>10
  <2>2. \A x \in Members : x # m => q.old[x] = p.old[x] /\ q.new[x] = p.new[x] /\ ~Syncing(r, x)
    BY <1>4, <1>10 DEF Syncing
  <2>3. ~Saving(r)
    BY DEF Saving
  <2>4. \A x \in HasRead(r)' : x \notin crossed' => \A s \in Slots : s # r => x \notin HasRead(s)
    BY <1>15, <1>16
  <2>5. UNCHANGED <<rankGroups, teamGroups, leaders, faults, unguarded>> /\ crossed \subseteq crossed'
    BY <1>8 DEF nextcloud
  <2>6. \A x \in Members : x \notin crossed' /\ faults' = 0 =>
          \/ RankFits(x)'
          \/ (rankGroups'[x] = rankGroups[x] /\ q.old[x] = req[r].old[x] /\ q.new[x] = req[r].new[x]
                /\ (Syncing(r, x) => q.new[x] = NoRow \/ (q.pc = "rank" /\ q.m = x)))
    BY <1>18, <2>2, <2>5
  <2>7. /\ req[r] # NoRequest /\ req[r].pc \notin {"migrate", "drop"} /\ q.pc \notin {"migrate", "drop"}
        /\ q.pc # "commit" /\ q.op = req[r].op /\ q.op = "edit"
    BY <1>2, <1>9
  <2> HIDE <1>0
  <2>8. req' = [req EXCEPT ![r] = q] /\ faults' = faults
    BY <1>8
  <2>9. UNCHANGED <<teamGroups, leaders, unguarded>>
    BY <2>5
  <2>10. \A x \in Members : q.old[x] # NoRow /\ x \notin crossed' => row[x] = q.old[x]
    BY <2>1
  <2>11. ~(q.pc = "commit" /\ q.op = "edit") /\ ~(q.op = "batch" /\ q.pc = "rank")
         /\ (q.op = "move" => q.m = req[r].m)
    BY <2>7
  <2>12. \A x \in HasRead(r)' : x \notin crossed' =>
           x \in HasRead(r) \/ \A s \in Slots : s # r => x \notin HasRead(s)
    BY <2>4
  <2>13. QED
    BY <1>12, <1>13, <1>17, <2>3, <2>5, <2>6, <2>7, <2>8, <2>9, <2>10, <2>11, <2>12, StepKept

\* Two leaders are there already: the request fails.
LEMMA CascadeFails ==
  ASSUME RosterInv, NEW r \in Slots, req[r].pc = "lead", End(r), crossed' = crossed \cup {req[r].m},
         UNCHANGED <<row, ranks, names, stages, rankGroups, teamGroups, leaders, begun, faults>>,
         UNCHANGED <<moved, unguarded, executed, breached>>
  PROVE  RosterInv'
<1>1. RequestsInv /\ TypeOK /\ TablesInv
  BY DEF RosterInv
<1>2. req[r] # NoRequest /\ req[r].op = "edit"
  BY <1>1, KindOfStep DEF Pcs
<1>3. EditShape(req[r])
  BY <1>1, <1>2, RequestFields DEF Shape
<1>4. req[r].m \in Members /\ \A x \in Members : x # req[r].m => ~Writes(r, x)
  BY <1>3 DEF EditShape, Writes
<1>5. TypeOK' /\ TablesInv' /\ TablesSame
  BY <1>1, <1>4 DEF TypeOK, TablesInv, TablesSame
<1>6. ~Saving(r) /\ ~Renames(r)
  BY DEF Saving, Renames, Migrates, Drops
<1>7. QED
  BY <1>2, <1>4, <1>5, <1>6, EndKept

\* The leadership of the team passes on.
PassesOn(r, p, m, rivals, q) ==
  /\ p = req[r] /\ p.pc = "lead" /\ m = p.m
  /\ rivals = IF p.new[m].title = "TL" THEN Rivals(m, p.new[m], p.old[m]) ELSE {}
  /\ q = [p EXCEPT !.pc = "commit",
                   !.old = [o \in Members |-> IF o \in rivals THEN row[o] ELSE @[o]],
                   !.new = [o \in Members |-> IF o \in rivals THEN [row[o] EXCEPT !.title = "none"]
                                              ELSE @[o]]]
  /\ req' = [req EXCEPT ![r] = q]
  /\ crossed' = crossed \cup Sharing(r, rivals) \cup {x \in {m} : Renaming}
  /\ unguarded' = unguarded \cup
       {x \in {m} : p.new[m].title = "TL" /\ \E s \in Slots \ {r} :
                      req[s].pc = "commit" /\ req[s].op = "edit"}
  /\ \/ faults < MaxFaults /\ faults' = faults + 1 /\ UNCHANGED <<teamGroups, leaders>>
     \/ /\ UNCHANGED faults
        /\ leaders' = LeadersAfter(m, p.new[m], p.old[m], rivals)
        /\ teamGroups' = [o \in Members |->
             IF o = m THEN {p.new[m].team} ELSE IF o \in rivals THEN {row[o].team} ELSE teamGroups[o]]
  /\ UNCHANGED <<row, ranks, names, stages, rankGroups, begun, moved, executed, breached>>

LEMMA CascadePasses ==
  ASSUME RosterInv, NEW r \in Slots, NEW p, NEW m, NEW rivals, NEW q, PassesOn(r, p, m, rivals, q)
  PROVE  RosterInv'
<1>a. p = req[r] /\ p.pc = "lead" /\ m = p.m
  BY DEF PassesOn
<1>b. rivals = IF p.new[m].title = "TL" THEN Rivals(m, p.new[m], p.old[m]) ELSE {}
  BY DEF PassesOn
<1>c. q = [p EXCEPT !.pc = "commit",
                   !.old = [o \in Members |-> IF o \in rivals THEN row[o] ELSE p.old[o]],
                   !.new = [o \in Members |-> IF o \in rivals THEN [row[o] EXCEPT !.title = "none"]
                                              ELSE p.new[o]]]
  BY DEF PassesOn
<1>d. /\ req' = [req EXCEPT ![r] = q]
      /\ UNCHANGED <<row, ranks, names, stages, rankGroups, begun, moved, executed, breached>>
  BY DEF PassesOn
<1>e. /\ crossed' = crossed \cup Sharing(r, rivals) \cup {x \in {m} : Renaming}
      /\ unguarded' = unguarded \cup
           {x \in {m} : p.new[m].title = "TL" /\ \E s \in Slots \ {r} :
                          req[s].pc = "commit" /\ req[s].op = "edit"}
  BY DEF PassesOn
<1>f. \/ faults < MaxFaults /\ faults' = faults + 1 /\ UNCHANGED <<teamGroups, leaders>>
      \/ /\ UNCHANGED faults
         /\ leaders' = LeadersAfter(m, p.new[m], p.old[m], rivals)
         /\ teamGroups' = [o \in Members |->
              IF o = m THEN {p.new[m].team} ELSE IF o \in rivals THEN {row[o].team} ELSE teamGroups[o]]
  BY DEF PassesOn
<1>1. RequestsInv /\ TypeOK /\ TablesInv
  BY DEF RosterInv
<1>2. p # NoRequest /\ p.op = "edit" /\ p.pc = "lead"
  BY <1>a, <1>1, KindOfStep DEF Pcs
<1>3. /\ p \in RequestType /\ EditShape(p) /\ WriteShape(p) /\ p.todo = {} /\ p.done = {}
      /\ p.old \in [Members -> RowType \cup {NoRow}]
      /\ p.new \in [Members -> RowType \cup {NoRow}]
      /\ p.log \in [Members -> Seq(Ranks \X Ranks)]
  BY <1>a, <1>1, <1>2, RequestFields DEF Shape
<1>4. /\ m \in Members /\ p.new[m] # NoRow /\ p.new[m] \in RowType
      /\ \A x \in Members : x # m => p.new[x] = NoRow /\ p.log[x] = << >>
  BY <1>a, <1>2, <1>3 DEF EditShape, WriteShape
<1>5. \A x \in Members : row[x] \in RowType /\ row[x] # NoRow
  BY <1>1, RowFields DEF TypeOK
<1>6. rivals \subseteq Members \ {m}
  BY <1>b DEF Rivals
<1>7. /\ q.pc = "commit" /\ q.op = "edit" /\ q.m = m /\ q.todo = {} /\ q.done = {}
      /\ q.old = [o \in Members |-> IF o \in rivals THEN row[o] ELSE p.old[o]]
      /\ q.new = [o \in Members |-> IF o \in rivals THEN [row[o] EXCEPT !.title = "none"] ELSE p.new[o]]
      /\ q.log = p.log /\ q = [p EXCEPT !.pc = "commit", !.old = q.old, !.new = q.new]
  BY <1>a, <1>c, <1>2, <1>3 DEF RequestType
<1>8. ASSUME NEW o \in rivals
      PROVE  /\ q.old[o] = row[o] /\ q.new[o] = [row[o] EXCEPT !.title = "none"]
             /\ q.new[o] \in RowType /\ q.new[o] # NoRow /\ q.new[o].title = "none"
             /\ q.new[o].rank = row[o].rank /\ q.new[o].team = row[o].team
             /\ o \in Members /\ o # m /\ q.log[o] = << >> /\ q.old[o] # NoRow
  <2>1. o \in Members /\ o # m
    BY <1>6
  <2>2. PICK n : n = [row[o] EXCEPT !.title = "none"]
    OBVIOUS
  <2>3. n \in RowType /\ n.title = "none" /\ n.rank = row[o].rank /\ n.team = row[o].team
    BY <1>5, <2>1, <2>2 DEF RowType
  <2>4. q.old[o] = row[o] /\ q.new[o] = n /\ q.log[o] = << >>
    BY <1>4, <1>7, <2>1, <2>2
  <2>5. QED
    BY <1>5, <2>1, <2>2, <2>3, <2>4, RowFields
<1>9. \A x \in Members : x \notin rivals => q.old[x] = p.old[x] /\ q.new[x] = p.new[x]
  BY <1>7
<1>10. q.old \in [Members -> RowType \cup {NoRow}] /\ q.new \in [Members -> RowType \cup {NoRow}]
  <2>1. \A x \in Members : q.old[x] \in RowType \cup {NoRow} /\ q.new[x] \in RowType \cup {NoRow}
    BY <1>3, <1>5, <1>8, <1>9
  <2>2. QED
    BY <1>7, <2>1
<1>11. q \in RequestType
  BY <1>3, <1>7, <1>10 DEF RequestType, Pcs
<1>12. q \in Requests
  <2>1. EditShape(q)
    BY <1>4, <1>6, <1>7, <1>8, <1>9 DEF EditShape
  <2>2. WriteShape(q)
    <3> SUFFICES ASSUME NEW x \in Members
                 PROVE  /\ q.new[x] = NoRow => q.log[x] = << >>
                        /\ q.new[x] # NoRow =>
                             /\ q.old[x] # NoRow
                             /\ Explains(q.log[x], q.old[x].rank, q.new[x].rank)
                             /\ NeverUp(q.log[x]) => q.new[x].rank <= q.old[x].rank
      BY <1>7 DEF WriteShape
    <3>1. CASE x \in rivals
      <4>1. row[x].rank \in Nat
        BY <1>5, RowFields
      <4>2. /\ q.log[x] = << >> /\ q.old[x] # NoRow /\ q.old[x].rank = row[x].rank
            /\ q.new[x].rank = row[x].rank /\ q.new[x] # NoRow
        BY <1>8, <3>1
      <4>3. Explains(q.log[x], q.old[x].rank, q.new[x].rank)
        BY <4>2 DEF Explains
      <4>4. QED
        BY <4>1, <4>2, <4>3
    <3>2. CASE x \notin rivals
      BY <1>3, <1>7, <1>9, <3>2 DEF WriteShape
    <3>3. QED
      BY <3>1, <3>2
  <2>3. QED
    BY <1>7, <1>11, <2>1, <2>2 DEF Requests, Shape
<1>13. req'[r] = q /\ Others(r) /\ RequestsInv'
  BY <1>d, <1>1, <1>12, GoesOn
<1>14. TypeOK' /\ TablesInv' /\ TablesSame
  <2>1. Sharing(r, rivals) \subseteq Members
    BY <1>6 DEF Sharing
  <2>2. p.new[m].team \in Teams /\ \A o \in Members : row[o].team \in Teams
    BY <1>4, <1>5, RowFields
  <2>3. LeadersAfter(m, p.new[m], p.old[m], rivals) \subseteq Members
    BY <1>1, <1>4, <1>6 DEF LeadersAfter, TypeOK
  <2>4. teamGroups' \in [Members -> SUBSET Teams] /\ leaders' \subseteq Members
    BY <1>f, <1>1, <2>2, <2>3 DEF TypeOK
  <2>5. faults' \in 0..MaxFaults
    BY <1>f, <1>1, BoundsAssumption DEF TypeOK
  <2>6. crossed' \subseteq Members
    BY <1>e, <1>1, <1>4, <2>1 DEF TablesInv
  <2>7. QED
    BY <1>d, <1>1, <2>4, <2>5, <2>6 DEF TypeOK, TablesInv, TablesSame
<1>15. \A x \in rivals : x \notin crossed' => \A s \in Slots : s # r => x \notin HasRead(s)
  BY <1>e, SharingIs
<1>16. m \in HasRead(r) /\ (m \notin crossed' => \A s \in Slots : s # r => m \notin HasRead(s))
  <2>1. m \in HasRead(r)
    BY <1>a, <1>1, <1>2, <1>4, WritersRead
  <2>2. QED
    BY <1>e, <2>1, <1>4 DEF RosterInv, AloneInv
<1>17. crossed \subseteq crossed' /\ unguarded \subseteq unguarded' /\ ~Saving(r) /\ Saving(r)'
       /\ ~Committed(r)' /\ q # NoRequest /\ (faults' = 0 => faults = 0)
  <2>1. faults \in Nat
    BY <1>1, BoundsAssumption DEF TypeOK
  <2>2. q # NoRequest
    <3>1. q.pc = "commit"
      BY <1>7
    <3>2. NoRequest.pc # "commit"
      BY DEF NoRequest
    <3>3. QED
      BY <3>1, <3>2
  <2>3. faults' = 0 => faults = 0
    BY <1>f, <2>1
  <2>4. ~Saving(r) /\ Saving(r)' /\ ~Committed(r)'
    BY <1>a, <1>7, <1>13 DEF Saving, Committed
  <2>5. QED
    BY <1>e, <2>2, <2>3, <2>4
<1>18. AloneInv'
  <2>1. \A x \in HasRead(r)' : x \in HasRead(r) \/ x \in rivals
    <3>1. HasRead(r)' = {x \in Members : q.old[x] # NoRow}
      BY <1>7, <1>13, <1>17 DEF HasRead
    <3>2. HasRead(r) = {x \in Members : p.old[x] # NoRow}
      BY <1>a, <1>2, <1>3 DEF HasRead
    <3>3. QED
      BY <1>9, <3>1, <3>2
  <2>2. QED
    BY <1>13, <1>15, <1>17, <2>1, AloneFrame DEF RosterInv
<1>19. CopyInv'
  <2>1. CopyFits(r)'
    <3>1. ASSUME NEW x \in Members, x \notin crossed', q.old[x] # NoRow PROVE row[x] = q.old[x]
      <4>1. CASE x \in rivals
        BY <1>8, <4>1
      <4>2. CASE x \notin rivals
        <5>1. p.old[x] = q.old[x] /\ x \notin crossed /\ ~Committed(r)
          BY <1>a, <1>2, <1>9, <1>17, <3>1, <4>2 DEF Committed
        <5>2. QED
          BY <1>a, <1>2, <3>1, <5>1 DEF RosterInv, CopyInv, CopyFits
      <4>3. QED
        BY <4>1, <4>2
    <3>2. QED
      BY <1>13, <1>14, <1>17, <3>1 DEF CopyFits, TablesSame
  <2>2. QED
    BY <1>1, <1>13, <1>14, <1>17, <2>1, CopyFrame DEF RosterInv, TablesSame
<1>20. StageInv'
  <2>1. StageFits(r)'
    BY <1>7, <1>13 DEF StageFits
  <2>2. QED
    BY <1>13, <1>14, <1>17, <2>1, StageFrame DEF RosterInv, TablesSame
<1>21. TitleInv'
  <2>1. TitleFits(r)'
    <3> SUFFICES ASSUME q.new[m].title = "TL", NEW o \in Members,
                        o \notin crossed' \cup moved' \cup unguarded' \cup {m},
                        row[o].team = q.new[m].team, row[o].title = "TL", row[o].status # "separated"
                 PROVE  q.new[o] # NoRow
      BY <1>7, <1>13, <1>14 DEF TitleFits, Crowning, TablesSame
    <3>1. q.new[m] = p.new[m]
      BY <1>4, <1>6, <1>9
    <3>2. row[o].status \in {"active", "recruit"}
      BY <1>5, RowFields
    <3>3. o \in rivals
      BY <1>b, <3>1, <3>2 DEF Rivals
    <3>4. QED
      BY <1>8, <3>3
  <2>2. Crowning(r)' => req'[r].m \in unguarded' \/ \A s \in Slots : s # r => ~Crowning(s)
    <3>1. q.new[m] = p.new[m]
      BY <1>4, <1>6, <1>9
    <3>2. QED
      BY <1>e, <1>7, <1>13, <3>1 DEF Crowning, Saving
  <2>3. QED
    BY <1>13, <1>14, <1>17, <2>1, <2>2, TitleFrame, RowsAreSame DEF RosterInv
<1>22. ChainInv' /\ HoldsAreKept' /\ OneLeader'
  BY <1>14, <1>17, TablesFrame, RowsAreSame DEF RosterInv
<1>23. RankGroupInv'
  <2>1. ASSUME faults' = 0, NEW x \in rivals, x \notin crossed' PROVE RankFits(x)'
    <3>1. ASSUME NEW s \in Slots, s # r PROVE ~Writes(s, x) /\ ~Writes(s, x)'
      <4>1. x \notin HasRead(s) /\ req'[s] = req[s]
        BY <1>13, <1>15, <2>1, <3>1 DEF Others
      <4>2. req[s] # NoRequest => req[s].new[x] = NoRow
        BY <1>1, <1>8, <4>1, WritersRead
      <4>3. QED
        BY <4>1, <4>2 DEF Writes
    <3>2. ~Writes(r, x) /\ x \in Members /\ x \notin crossed
      BY <1>a, <1>4, <1>8, <1>17, <2>1 DEF Writes
    <3>3. rankGroups[x] = {row[x].rank} /\ rankGroups' = rankGroups /\ row' = row
      BY <1>d, <1>17, <2>1, <3>1, <3>2 DEF RosterInv, RankGroupInv, RankFits
    <3>4. q.new[x].rank = row[x].rank /\ q.op = "edit"
      BY <1>7, <1>8
    <3>5. Writes(r, x)'
      BY <1>8, <1>13, <1>17 DEF Writes
    <3>6. QED
      BY <1>13, <3>1, <3>3, <3>4, <3>5 DEF RankFits
  <2>2. ASSUME NEW x \in Members, x \notin rivals
        PROVE  /\ Writes(r, x)' <=> Writes(r, x)
               /\ ~Syncing(r, x) /\ q.op = p.op /\ q.old[x] = p.old[x] /\ q.new[x] = p.new[x]
    BY <1>a, <1>2, <1>7, <1>9, <1>13, <1>17, <2>2 DEF Writes, Syncing
  <2>3. QED
    <3>1. rankGroups' = rankGroups /\ row' = row /\ RankGroupInv
      BY <1>d DEF RosterInv
    <3>2. \A x \in Members : x \notin crossed' /\ faults' = 0 =>
           \/ RankFits(x)'
           \/ /\ rankGroups'[x] = rankGroups[x] /\ row'[x].rank = row[x].rank
              /\ Writes(r, x)' <=> Writes(r, x)
              /\ Writes(r, x)' /\ ~Syncing(r, x)' =>
                   /\ ~Syncing(r, x) /\ req'[r].op = req[r].op
                   /\ req'[r].old[x] = req[r].old[x] /\ req'[r].new[x] = req[r].new[x]
      BY <1>a, <1>13, <2>1, <2>2, <3>1
    <3>3. QED
      BY <1>13, <1>17, <3>1, <3>2, RankFrame
<1>24. TeamGroupInv'
  <2> SUFFICES ASSUME faults' = 0 PROVE TeamGroupInv'
    BY DEF TeamGroupInv
  <2>1. /\ faults = 0 /\ TeamGroupInv
        /\ \A o \in Members : teamGroups'[o] =
             IF o = m THEN {p.new[m].team} ELSE IF o \in rivals THEN {row[o].team} ELSE teamGroups[o]
    <3>1. faults = 0 /\ TeamGroupInv
      BY <1>17 DEF RosterInv
    <3>2. QED
      BY <1>f, <3>1, BoundsAssumption
  <2>2. \A s \in Slots : s # r => /\ req'[s] = req[s] /\ (Saving(s)' <=> Saving(s))
                                  /\ (Renames(s)' <=> Renames(s)) /\ (Migrates(s)' <=> Migrates(s))
                                  /\ \A x \in Members : Settled(s, x)' <=> Settled(s, x)
    BY <1>13 DEF Others, Saving, Renames, Migrates, Drops, Settled
  <2>3. ~Renames(r) /\ ~Renames(r)' /\ ~Migrates(r) /\ ~Migrates(r)'
    BY <1>a, <1>2, <1>7, <1>13 DEF Renames, Migrates, Drops
  <2>4. \A s, t \in Slots : s # t /\ Renames(s)' /\ Renames(t)' => crossed' = Members
    <3>1. \A s, t \in Slots : s # t /\ Renames(s) /\ Renames(t) => crossed = Members
      BY <2>1 DEF TeamGroupInv
    <3>2. crossed' \subseteq Members
      BY <1>14 DEF TablesInv
    <3>3. QED
      BY <1>17, <2>2, <2>3, <3>1, <3>2
  <2>5. ASSUME NEW s \in Slots, Saving(s)', req'[s].m \notin crossed'
        PROVE  teamGroups'[req'[s].m] = {req'[s].new[req'[s].m].team} /\ \A t \in Slots : ~Renames(t)'
    <3>1. CASE s = r
      <4>1. req'[s].m = m /\ q.new[m] = p.new[m]
        BY <1>4, <1>6, <1>7, <1>9, <1>13, <3>1
      <4>2. ~Renaming
        BY <1>e, <2>5, <3>1, <4>1
      <4>3. \A t \in Slots : ~Renames(t)
        BY <4>2 DEF Renaming, Renames, Migrates, Drops
      <4>4. \A t \in Slots : ~Renames(t)'
        BY <2>2, <2>3, <4>3
      <4>5. QED
        BY <1>4, <1>13, <2>1, <3>1, <4>1, <4>4
    <3>2. CASE s # r
      <4>1. Saving(s) /\ req'[s] = req[s] /\ req[s].m \notin crossed
        BY <1>17, <2>2, <2>5, <3>2
      <4>2. req[s] # NoRequest /\ req[s].op = "edit" /\ req[s].pc = "commit"
        BY <4>1 DEF Saving, NoRequest
      <4>3. EditShape(req[s])
        BY <1>1, <4>2, RequestFields DEF Shape
      <4>4. req[s].m \in Members /\ req[s].m \in HasRead(s)
        BY <1>1, <4>2, <4>3, WritersRead DEF EditShape
      <4>5. req[s].m # m /\ req[s].m \notin rivals
        BY <1>15, <1>16, <2>5, <3>2, <4>1, <4>4
      <4>6. teamGroups[req[s].m] = {req[s].new[req[s].m].team} /\ \A t \in Slots : ~Renames(t)
        BY <2>1, <4>1 DEF TeamGroupInv
      <4>7. QED
        BY <2>1, <2>2, <2>3, <4>1, <4>4, <4>5, <4>6
    <3>3. QED
      BY <3>1, <3>2
  <2>6. ASSUME NEW x \in Members, x \notin crossed', x \notin moved', \A s \in Slots : Settled(s, x)'
        PROVE  TeamFits(x)'
    <3>1. x # m
      BY <1>7, <1>13, <1>17, <2>6 DEF Settled
    <3>2. \A s \in Slots : Settled(s, x)
      BY <1>a, <2>2, <2>6, <3>1 DEF Settled
    <3>3. TeamFits(x)
      BY <1>d, <1>17, <2>1, <2>6 DEF TeamGroupInv
    <3>4. teamGroups'[x] = {row[x].team} \/ teamGroups'[x] = teamGroups[x]
      BY <2>1, <3>1
    <3>5. row' = row
      BY <1>d
    <3>6. QED
      BY <2>2, <2>3, <3>2, <3>3, <3>4, <3>5 DEF TeamFits
  <2>7. \A x \in Members : x \notin crossed' /\ x \notin moved' => TeamFits(x)'
    BY <2>6 DEF TeamFits
  <2>8. QED
    BY <2>4, <2>5, <2>7 DEF TeamGroupInv
<1>25. LeadersInv'
  <2> SUFFICES ASSUME faults' = 0, NEW x \in Members, x \notin crossed' PROVE LeaderFits(x)'
    BY DEF LeadersInv
  <2>1. /\ LeaderFits(x) /\ leaders' = LeadersAfter(m, p.new[m], p.old[m], rivals)
    <3>1. faults = 0 /\ x \notin crossed
      BY <1>17
    <3>2. LeaderFits(x)
      BY <3>1 DEF RosterInv, LeadersInv
    <3>3. QED
      BY <1>f, <3>1, <3>2, BoundsAssumption
  <2>2. \A s \in Slots : s # r => req'[s] = req[s] /\ (Saving(s)' <=> Saving(s))
    BY <1>13 DEF Others, Saving
  <2>3. CASE x # m /\ x \notin rivals
    <3>1. x \in leaders => x \in leaders'
      BY <2>1, <2>3 DEF LeadersAfter
    <3>2. q.new[x] = NoRow
      BY <1>4, <1>9, <2>3
    <3>3. row' = row /\ ranks' = ranks
      BY <1>d
    <3>4. QED
      BY <1>13, <1>17, <2>1, <2>2, <3>1, <3>2, <3>3 DEF LeaderFits, Leads
  <2>4. CASE x = m \/ x \in rivals
    <3>1. q.new[x] # NoRow
      BY <1>4, <1>6, <1>8, <1>9, <2>4
    <3>2. \A s \in Slots : s # r /\ Saving(s) => req[s].new[x] = NoRow
      <4>1. ASSUME NEW s \in Slots, s # r, Saving(s) PROVE req[s].new[x] = NoRow
        <5>1. x \notin HasRead(s)
          BY <1>15, <1>16, <2>4, <4>1
        <5>2. req[s] # NoRequest
          BY <4>1 DEF Saving, NoRequest
        <5>3. QED
          BY <1>1, <5>1, <5>2, WritersRead
      <4>2. QED
        BY <4>1
    <3>3. Leads(q.new[x].rank, q.new[x].title) => x \in leaders'
      <4>1. CASE x = m
        <5>1. q.new[x] = p.new[m]
          BY <1>4, <1>6, <1>9, <4>1
        <5>2. QED
          BY <2>1, <4>1, <5>1 DEF LeadersAfter
      <4>2. CASE x \in rivals
        <5>1. Leads(q.new[x].rank, q.new[x].title) => Ranked(x, "none")
          BY <1>8, <4>2 DEF Leads, Ranked
        <5>2. x # m
          BY <1>6, <4>2
        <5>3. QED
          BY <2>1, <4>2, <5>1, <5>2 DEF LeadersAfter
      <4>3. QED
        BY <2>4, <4>1, <4>2
    <3>4. QED
      BY <1>13, <1>17, <2>2, <3>1, <3>2, <3>3 DEF LeaderFits, Leads
  <2>5. QED
    BY <2>3, <2>4
<1>26. QED
  BY <1>13, <1>14, <1>18, <1>19, <1>20, <1>21, <1>22, <1>23, <1>24, <1>25 DEF RosterInv

LEMMA CascadeKept ==
  ASSUME RosterInv, NEW r \in Slots, NEW lost \in BOOLEAN, Cascade(r, lost)
  PROVE  RosterInv'
<1>1. PICK p, m, rivals :
        /\ p = req[r] /\ m = p.m
        /\ rivals = IF p.new[m].title = "TL" THEN Rivals(m, p.new[m], p.old[m]) ELSE {}
  OBVIOUS
<1>2. req[r].pc = "lead"
  BY DEF Cascade
<1>3. CASE Cardinality(rivals) > 1
  BY <1>1, <1>2, <1>3, CascadeFails DEF Cascade
<1>4. CASE ~(Cardinality(rivals) > 1)
  <2>1. PICK q : q = [p EXCEPT !.pc = "commit",
                  !.old = [o \in Members |-> IF o \in rivals THEN row[o] ELSE @[o]],
                  !.new = [o \in Members |-> IF o \in rivals THEN [row[o] EXCEPT !.title = "none"]
                                             ELSE @[o]]]
    OBVIOUS
  <2>2. PassesOn(r, p, m, rivals, q)
    BY <1>1, <1>4, <2>1 DEF Cascade, PassesOn
  <2>3. QED
    BY <2>2, CascadePasses
<1>5. QED
  BY <1>3, <1>4

-----------------------------------------------------------------------------
(***************************************************************************)
(* Steps that change nothing of a request but what it does next.           *)
(***************************************************************************)
LEMMA AtIs ==
  ASSUME RequestsInv, NEW r \in Slots, req[r] # NoRequest, NEW pc \in Pcs, At(r, pc)
  PROVE  \E q \in RequestType :
           /\ req' = [req EXCEPT ![r] = q] /\ req'[r] = q /\ q.pc = pc /\ q # NoRequest
           /\ q.op = req[r].op /\ q.m = req[r].m /\ q.old = req[r].old /\ q.new = req[r].new
           /\ q.log = req[r].log /\ q.staged = req[r].staged /\ q.todo = req[r].todo
           /\ q.done = req[r].done /\ q.from = req[r].from /\ q.to = req[r].to
           /\ WriteShape(q) /\ HasRead(r)' = HasRead(r)
<1>1. PICK p : p = req[r]
  OBVIOUS
<1>2. p \in RequestType /\ WriteShape(p) /\ p # NoRequest
  BY <1>1, RequestFields DEF Shape
<1>3. PICK q : q = [p EXCEPT !.pc = pc]
  OBVIOUS
<1>4. /\ q \in RequestType /\ q.pc = pc /\ q.op = p.op /\ q.m = p.m /\ q.old = p.old /\ q.new = p.new
      /\ q.log = p.log /\ q.staged = p.staged /\ q.todo = p.todo
      /\ q.done = p.done /\ q.from = p.from /\ q.to = p.to
  BY <1>2, <1>3 DEF RequestType
<1>5. req' = [req EXCEPT ![r] = q] /\ req'[r] = q
  BY <1>1, <1>3 DEF At, RequestsInv
<1>6. WriteShape(q)
  BY <1>2, <1>4 DEF WriteShape
<1>7. q # NoRequest
  BY <1>4 DEF Pcs, NoRequest
<1>8. HasRead(r)' = HasRead(r)
  <2>1. HasRead(r) = {m \in Members : p.old[m] # NoRow} \cup {p.staged[s].member : s \in p.todo}
    BY <1>1, <1>2 DEF HasRead
  <2>2. HasRead(r)' = {m \in Members : q.old[m] # NoRow} \cup {q.staged[s].member : s \in q.todo}
    BY <1>5, <1>7 DEF HasRead
  <2>3. QED
    BY <1>4, <2>1, <2>2
<1>9. QED
  BY <1>1, <1>4, <1>5, <1>6, <1>7, <1>8

LEMMA OnlyReader ==
  ASSUME RequestsInv, AloneInv, NEW r \in Slots, NEW m \in HasRead(r), m \in Members, m \notin crossed,
         NEW s \in Slots, s # r
  PROVE  m \notin HasRead(s) /\ ~Writes(s, m)
<1>1. m \notin HasRead(s)
  BY DEF AloneInv
<1>2. QED
  BY <1>1, WritersRead DEF Writes

LEMMA AllExecutedKept ==
  ASSUME RosterInv, NEW r \in Slots, AllExecuted(r)
  PROVE  RosterInv'
<1>1. RequestsInv /\ TypeOK /\ TablesInv /\ CopyInv /\ StageInv
  BY DEF RosterInv
<1>2. /\ req[r].pc = "next" /\ req[r].todo = {} /\ At(r, "commit")
      /\ UNCHANGED <<row, ranks, names, stages, nextcloud, begun, faults, history>>
  BY DEF AllExecuted
<1>3. req[r] # NoRequest /\ req[r].op = "finalize" /\ FinalizeShape(req[r])
  <2>1. req[r] # NoRequest /\ req[r].op = "finalize"
    BY <1>1, <1>2, KindOfStep DEF Pcs
  <2>2. QED
    BY <1>1, <2>1, RequestFields DEF Shape
<1>4. "commit" \in Pcs
  BY DEF Pcs
<1>5. PICK q \in RequestType :
           /\ req' = [req EXCEPT ![r] = q] /\ req'[r] = q /\ q.pc = "commit" /\ q # NoRequest
           /\ q.op = req[r].op /\ q.m = req[r].m /\ q.old = req[r].old /\ q.new = req[r].new
           /\ q.log = req[r].log /\ q.staged = req[r].staged /\ q.todo = req[r].todo
           /\ q.done = req[r].done /\ q.from = req[r].from /\ q.to = req[r].to
           /\ WriteShape(q) /\ HasRead(r)' = HasRead(r)
  BY <1>1, <1>2, <1>3, <1>4, AtIs
<1>6. q \in Requests
  <2>1. FinalizeShape(q)
    BY <1>3, <1>5 DEF FinalizeShape
  <2>2. QED
    BY <1>3, <1>5, <2>1 DEF Requests, Shape
<1>7. TypeOK' /\ TablesInv' /\ TablesSame /\ UNCHANGED <<rankGroups, teamGroups, leaders, unguarded, faults, crossed>>
  BY <1>1, <1>2 DEF TypeOK, TablesInv, TablesSame, nextcloud, history
<1>8. StageFits(r)'
  <2>1. \A s \in q.todo \cup q.done :
       /\ stages[s] # NoStage /\ stages[s].member = q.staged[s].member
       /\ stages[s].member \notin crossed => stages[s].status = "staged"
    BY <1>1, <1>3, <1>5 DEF StageInv, StageFits
  <2>2. stages' = stages /\ crossed' = crossed
    BY <1>7 DEF TablesSame
  <2>3. QED
    BY <1>5, <2>1, <2>2 DEF StageFits
<1>9. \A m \in Members : q.old[m] # NoRow /\ m \notin crossed' => row[m] = q.old[m]
  BY <1>1, <1>3, <1>5, <1>7 DEF CopyInv, CopyFits, Committed
<1>10. ~Saving(r) /\ req[r].pc \notin {"migrate", "drop"}
  BY <1>2 DEF Saving
<1>11. \A m \in Members : rankGroups'[m] = rankGroups[m] /\ q.old[m] = req[r].old[m]
                          /\ q.new[m] = req[r].new[m] /\ ~Syncing(r, m)
  BY <1>2, <1>5, <1>7 DEF Syncing
<1>12. q.op = "finalize" /\ q.pc = "commit" /\ req' = [req EXCEPT ![r] = q] /\ HasRead(r)' = HasRead(r)
       /\ req[r].op = "finalize"
  BY <1>3, <1>5
<1>13. QED
  BY <1>3, <1>6, <1>7, <1>8, <1>9, <1>10, <1>11, <1>12, StepKept

\* The group of the rank is synchronised, and the request goes on.
LEMMA RankSynced ==
  ASSUME RosterInv, NEW r \in Slots, NEW lost \in BOOLEAN, SyncRank(r, lost), req[r].op # "batch"
  PROVE  RosterInv'
<1>1. RequestsInv /\ TypeOK /\ TablesInv /\ CopyInv /\ StageInv /\ AloneInv
  BY DEF RosterInv
<1>2. /\ req[r].pc = "rank"
      /\ UNCHANGED <<row, ranks, names, stages, teamGroups, leaders, begun, history>>
  BY DEF SyncRank
<1>3. req[r] # NoRequest /\ req[r].op \in {"edit", "promote", "finalize"}
  BY <1>1, <1>2, KindOfStep DEF Pcs
<1>4. PICK m, n : m = req[r].m /\ n = req[r].new[m]
  OBVIOUS
<1>5. m \in Members /\ n # NoRow /\ n \in RowType /\ n.rank \in Ranks
  <2>1. m \in Members /\ n # NoRow
    BY <1>1, <1>2, <1>3, <1>4, RequestFields DEF Shape, EditShape, PromoteShape, FinalizeShape
  <2>2. QED
    BY <1>1, <1>3, <1>4, <2>1, RequestFields, RowFields
<1>6. PICK pc : pc = After(req[r].op)
  OBVIOUS
<1>7. /\ pc \in Pcs /\ pc \in {"lead", "commit", "next"} /\ At(r, pc)
      /\ req[r].op = "edit" => pc = "lead"
      /\ req[r].op = "promote" => pc = "commit"
      /\ req[r].op = "finalize" => pc = "next"
  BY <1>3, <1>6 DEF After, Pcs, SyncRank
<1>8. PICK q \in RequestType :
           /\ req' = [req EXCEPT ![r] = q] /\ req'[r] = q /\ q.pc = pc /\ q # NoRequest
           /\ q.op = req[r].op /\ q.m = req[r].m /\ q.old = req[r].old /\ q.new = req[r].new
           /\ q.log = req[r].log /\ q.staged = req[r].staged /\ q.todo = req[r].todo
           /\ q.done = req[r].done /\ q.from = req[r].from /\ q.to = req[r].to
           /\ WriteShape(q) /\ HasRead(r)' = HasRead(r)
  BY <1>1, <1>3, <1>7, AtIs
<1>9. q \in Requests
  <2>1. Shape(req[r])
    BY <1>1, <1>3, RequestFields
  <2>2. q.op = "edit" => EditShape(q)
    BY <1>2, <1>7, <1>8, <2>1 DEF Shape, EditShape
  <2>3. q.op \in {"promote", "batch"} => PromoteShape(q)
    BY <1>2, <1>3, <1>7, <1>8, <2>1 DEF Shape, PromoteShape
  <2>4. q.op = "finalize" => FinalizeShape(q)
    BY <1>2, <1>7, <1>8, <2>1 DEF Shape, FinalizeShape
  <2>5. q.op # "finalize" => q.todo = {} /\ q.done = {}
    BY <1>8, <2>1 DEF Shape
  <2>6. QED
    BY <1>3, <1>8, <2>2, <2>3, <2>4, <2>5 DEF Requests, Shape
<1>10. faults' = 0 => faults' = faults /\ rankGroups' = [rankGroups EXCEPT ![m] = {n.rank}]
  <2>1. faults \in Nat
    BY <1>1, BoundsAssumption DEF TypeOK
  <2>2. QED
    BY <1>4, <2>1 DEF SyncRank, RankGroupsAfter
<1>11. TypeOK' /\ TablesInv' /\ TablesSame /\ UNCHANGED <<teamGroups, leaders, unguarded, crossed>>
  <2>1. faults' \in 0..MaxFaults
    BY <1>1, BoundsAssumption DEF TypeOK, SyncRank
  <2>2. rankGroups' \in [Members -> SUBSET Ranks]
    <3>1. rankGroups' = rankGroups \/ rankGroups' = [rankGroups EXCEPT ![m] = {n.rank}]
      BY <1>4 DEF SyncRank, RankGroupsAfter
    <3>2. QED
      BY <1>1, <1>5, <3>1 DEF TypeOK
  <2>3. QED
    BY <1>1, <1>2, <2>1, <2>2 DEF TypeOK, TablesInv, TablesSame, history
<1>12. StageFits(r)'
  <2>1. \A s \in q.todo \cup q.done :
       /\ stages[s] # NoStage /\ stages[s].member = q.staged[s].member
       /\ stages[s].member \notin crossed => stages[s].status = "staged"
    BY <1>1, <1>3, <1>8 DEF StageInv, StageFits
  <2>2. stages' = stages /\ crossed' = crossed
    BY <1>11 DEF TablesSame
  <2>3. QED
    BY <1>7, <1>8, <2>1, <2>2 DEF StageFits
<1>13. \A x \in Members : q.old[x] # NoRow /\ x \notin crossed' => row[x] = q.old[x]
  BY <1>1, <1>3, <1>8, <1>11 DEF CopyInv, CopyFits, Committed
<1>14. \A x \in Members : x # m => ~Syncing(r, x)
  BY <1>4 DEF Syncing
<1>15. m \notin crossed' /\ faults' = 0 => RankFits(m)'
  <2> SUFFICES ASSUME m \notin crossed', faults' = 0 PROVE RankFits(m)'
    OBVIOUS
  <2>1. ASSUME NEW s \in Slots, s # r PROVE ~Writes(s, m)'
    <3>1. m \in HasRead(r)
      BY <1>1, <1>3, <1>4, <1>5, WritersRead
    <3>2. ~Writes(s, m)
      BY <1>1, <1>5, <1>11, <2>1, <3>1, OnlyReader
    <3>3. req'[s] = req[s]
      BY <1>1, <1>8, <1>9, <2>1, GoesOn DEF Others
    <3>4. QED
      BY <3>2, <3>3 DEF Writes
  <2>2. Writes(r, m)' /\ req'[r].op # "batch" /\ req'[r].new[m] = n
    BY <1>3, <1>4, <1>5, <1>8 DEF Writes
  <2>3. rankGroups'[m] = {n.rank}
    BY <1>1, <1>5, <1>10 DEF TypeOK
  <2>4. QED
    BY <2>1, <2>2, <2>3 DEF RankFits
<1>16. \A x \in Members : x # m /\ faults' = 0 => rankGroups'[x] = rankGroups[x]
  BY <1>1, <1>10 DEF TypeOK
<1>17. \A x \in Members : x \notin crossed' /\ faults' = 0 =>
          \/ RankFits(x)'
          \/ (rankGroups'[x] = rankGroups[x] /\ q.old[x] = req[r].old[x] /\ q.new[x] = req[r].new[x]
                /\ (Syncing(r, x) => q.new[x] = NoRow \/ (q.pc = "rank" /\ q.m = x)))
  BY <1>8, <1>14, <1>15, <1>16
<1>18. /\ ~Saving(r) /\ req[r].pc \notin {"migrate", "drop"} /\ q.pc \notin {"migrate", "drop"}
       /\ ~(q.pc = "commit" /\ q.op = "edit") /\ ~(q.op = "batch" /\ q.pc = "rank")
       /\ q.op = req[r].op /\ q.m = req[r].m /\ (faults' = 0 => faults = 0)
       /\ req' = [req EXCEPT ![r] = q] /\ HasRead(r)' = HasRead(r)
  BY <1>2, <1>3, <1>7, <1>8, <1>10 DEF Saving
<1>19. QED
  BY <1>3, <1>9, <1>11, <1>12, <1>13, <1>17, <1>18, StepKept

\* In batches it is the last step.
LEMMA BatchEnds ==
  ASSUME RosterInv, NEW r \in Slots, NEW lost \in BOOLEAN, SyncRank(r, lost), req[r].op = "batch"
  PROVE  RosterInv'
<1>1. RequestsInv /\ TypeOK /\ TablesInv /\ CopyInv /\ AloneInv
  BY DEF RosterInv
<1>2. /\ req[r].pc = "rank"
      /\ UNCHANGED <<row, ranks, names, stages, teamGroups, leaders, begun, history>>
  BY DEF SyncRank
<1>3. req[r] # NoRequest /\ PromoteShape(req[r])
  <2>1. req[r] # NoRequest
    BY <1>1, <1>2, KindOfStep DEF Pcs
  <2>2. QED
    BY <1>1, <2>1, RequestFields DEF Shape
<1>4. PICK m, n : m = req[r].m /\ n = req[r].new[m]
  OBVIOUS
<1>5. m \in Members /\ n # NoRow /\ n \in RowType /\ n.rank \in Ranks
      /\ \A x \in Members : x # m => req[r].new[x] = NoRow
  <2>1. m \in Members /\ n # NoRow /\ \A x \in Members : x # m => req[r].new[x] = NoRow
    BY <1>3, <1>4 DEF PromoteShape
  <2>2. QED
    BY <1>1, <1>3, <1>4, <2>1, RequestFields, RowFields
<1>6. End(r)
  BY DEF SyncRank, After
<1>7. req'[r] = NoRequest /\ Others(r)
  BY <1>1, <1>6, GoesOn DEF End
<1>10. faults' = 0 => faults' = faults /\ rankGroups' = [rankGroups EXCEPT ![m] = {n.rank}]
  <2>1. faults \in Nat
    BY <1>1, BoundsAssumption DEF TypeOK
  <2>2. QED
    BY <1>4, <2>1 DEF SyncRank, RankGroupsAfter
<1>11. TypeOK' /\ TablesInv' /\ TablesSame /\ UNCHANGED <<teamGroups, leaders, unguarded, crossed>>
  <2>1. faults' \in 0..MaxFaults
    BY <1>1, BoundsAssumption DEF TypeOK, SyncRank
  <2>2. rankGroups' \in [Members -> SUBSET Ranks]
    <3>1. rankGroups' = rankGroups \/ rankGroups' = [rankGroups EXCEPT ![m] = {n.rank}]
      BY <1>4 DEF SyncRank, RankGroupsAfter
    <3>2. QED
      BY <1>1, <1>5, <3>1 DEF TypeOK
  <2>3. QED
    BY <1>1, <1>2, <2>1, <2>2 DEF TypeOK, TablesInv, TablesSame, history
<1>15. m \notin crossed' /\ faults' = 0 => RankFits(m)'
  <2> SUFFICES ASSUME m \notin crossed', faults' = 0 PROVE RankFits(m)'
    OBVIOUS
  <2>1. m \in HasRead(r) /\ req[r].old[m] # NoRow
    <3>1. m \in HasRead(r)
      BY <1>1, <1>3, <1>4, <1>5, WritersRead
    <3>2. WriteShape(req[r])
      BY <1>1, <1>3, RequestFields DEF Shape
    <3>3. QED
      BY <1>4, <1>5, <3>1, <3>2 DEF WriteShape
  <2>2. ASSUME NEW s \in Slots PROVE ~Writes(s, m)'
    <3>1. CASE s = r
      BY <1>7, <3>1 DEF Writes
    <3>2. CASE s # r
      <4>1. ~Writes(s, m)
        BY <1>1, <1>5, <1>11, <2>1, <3>2, OnlyReader
      <4>2. QED
        BY <1>7, <3>2, <4>1 DEF Others, Writes
    <3>3. QED
      BY <3>1, <3>2
  <2>3. rankGroups'[m] = {n.rank}
    BY <1>1, <1>5, <1>10 DEF TypeOK
  <2>4. row'[m] = n
    BY <1>1, <1>2, <1>3, <1>4, <1>5, <1>11, <2>1 DEF CopyInv, CopyFits, Committed
  <2>5. QED
    BY <2>2, <2>3, <2>4 DEF RankFits
<1>16. \A x \in Members : x # m /\ faults' = 0 => rankGroups'[x] = rankGroups[x] /\ ~Writes(r, x)
  BY <1>1, <1>5, <1>10 DEF TypeOK, Writes
<1>17. ~Saving(r) /\ ~Renames(r) /\ req[r].op # "move" /\ (faults' = 0 => faults = 0)
  BY <1>2, <1>10 DEF Saving, Renames, Migrates, Drops
<1>18. \A x \in Members : x \notin crossed' /\ faults' = 0 =>
          RankFits(x)' \/ (rankGroups'[x] = rankGroups[x] /\ ~Writes(r, x))
  BY <1>15, <1>16
<1>19. QED
  BY <1>6, <1>11, <1>17, <1>18, EndKept

LEMMA SyncRankKept ==
  ASSUME RosterInv, NEW r \in Slots, NEW lost \in BOOLEAN, SyncRank(r, lost)
  PROVE  RosterInv'
BY RankSynced, BatchEnds

-----------------------------------------------------------------------------
(***************************************************************************)
(* A staged change is carried out, or refused.                             *)
(***************************************************************************)
LEMMA StageRefused ==
  ASSUME RosterInv, NEW r \in Slots, NEW s \in Stages, req[r].pc = "next", s \in req[r].todo,
         NEW p, p = req[r],
         req' = [req EXCEPT ![r].todo = @ \ {s}],
         crossed' = crossed \cup Sharing(r, {p.staged[s].member}),
         UNCHANGED <<row, ranks, names, stages, nextcloud, begun, faults,
                     moved, unguarded, executed, breached>>
  PROVE  RosterInv'
<1>1. RequestsInv /\ TypeOK /\ TablesInv /\ CopyInv /\ StageInv
  BY DEF RosterInv
<1>2. p # NoRequest /\ p.op = "finalize" /\ p.pc = "next"
  BY <1>1, KindOfStep DEF Pcs
<1>3. p \in RequestType /\ FinalizeShape(p) /\ WriteShape(p) /\ p.todo \subseteq Stages
      /\ p.staged \in [Stages -> StageType \cup {NoStage}]
  BY <1>1, <1>2, RequestFields DEF Shape
<1>4. PICK q : q = [p EXCEPT !.todo = @ \ {s}]
  OBVIOUS
<1>5. /\ q \in RequestType /\ q.pc = "next" /\ q.op = "finalize" /\ q.m = p.m /\ q.old = p.old
      /\ q.new = p.new /\ q.log = p.log /\ q.staged = p.staged /\ q.todo = p.todo \ {s}
      /\ q.done = p.done
  BY <1>2, <1>3, <1>4 DEF RequestType
<1>6. req' = [req EXCEPT ![r] = q]
  BY <1>1, <1>4 DEF RequestsInv
<1>7. q \in Requests
  <2>1. FinalizeShape(q)
    BY <1>3, <1>5 DEF FinalizeShape
  <2>2. WriteShape(q)
    BY <1>2, <1>3, <1>5 DEF WriteShape
  <2>3. QED
    BY <1>5, <2>1, <2>2 DEF Requests, Shape
<1>8. req'[r] = q /\ q # NoRequest
  <2>1. NoRequest.pc # "next"
    BY DEF NoRequest
  <2>2. QED
    BY <1>1, <1>5, <1>6, <1>7, <2>1, GoesOn
<1>9. TypeOK' /\ TablesInv' /\ TablesSame /\ UNCHANGED <<rankGroups, teamGroups, leaders, unguarded, faults>>
      /\ crossed \subseteq crossed'
  <2>1. p.staged[s].member \in Members
    BY <1>3, StageFields DEF FinalizeShape
  <2>2. crossed' \subseteq Members
    BY <1>1, <2>1 DEF TablesInv, Sharing
  <2>3. QED
    BY <1>1, <2>2 DEF TypeOK, TablesInv, TablesSame, nextcloud
<1>10. StageFits(r)'
  <2>1. \A i \in q.todo \cup q.done :
       /\ stages[i] # NoStage /\ stages[i].member = q.staged[i].member
       /\ stages[i].member \notin crossed => stages[i].status = "staged"
    BY <1>1, <1>2, <1>5 DEF StageInv, StageFits
  <2>2. stages' = stages
    BY <1>9 DEF TablesSame
  <2>3. QED
    BY <1>5, <1>8, <1>9, <2>1, <2>2 DEF StageFits
<1>11. \A x \in Members : q.old[x] # NoRow /\ x \notin crossed' => row[x] = q.old[x]
  BY <1>1, <1>2, <1>5, <1>9 DEF CopyInv, CopyFits, Committed
<1>12. \A x \in HasRead(r)' : x \in HasRead(r)
  <2>1. HasRead(r) = {x \in Members : p.old[x] # NoRow} \cup {p.staged[i].member : i \in p.todo}
    BY <1>2 DEF HasRead
  <2>2. HasRead(r)' = {x \in Members : q.old[x] # NoRow} \cup {q.staged[i].member : i \in q.todo}
    BY <1>8 DEF HasRead
  <2>3. QED
    BY <1>5, <2>1, <2>2
<1>13. /\ req[r] # NoRequest /\ ~Saving(r) /\ req[r].pc \notin {"migrate", "drop"}
       /\ q.pc \notin {"migrate", "drop"} /\ q.op = req[r].op
       /\ ~(q.pc = "commit" /\ q.op = "edit") /\ ~(q.op = "batch" /\ q.pc = "rank") /\ q.op # "move"
  BY <1>2, <1>5 DEF Saving
<1>14. \A x \in Members : rankGroups'[x] = rankGroups[x] /\ q.old[x] = req[r].old[x]
                          /\ q.new[x] = req[r].new[x] /\ ~Syncing(r, x)
  BY <1>2, <1>5, <1>9 DEF Syncing
<1>15. \A x \in Members : x \notin crossed' /\ faults' = 0 =>
          \/ RankFits(x)'
          \/ (rankGroups'[x] = rankGroups[x] /\ q.old[x] = req[r].old[x] /\ q.new[x] = req[r].new[x]
                /\ (Syncing(r, x) => q.new[x] = NoRow \/ (q.pc = "rank" /\ q.m = x)))
  BY <1>14
<1>16. TypeOK' /\ TablesInv' /\ TablesSame /\ crossed \subseteq crossed' /\ (faults' = 0 => faults = 0)
       /\ UNCHANGED <<teamGroups, leaders, unguarded>>
  BY <1>9
<1>17. QED
  BY <1>6, <1>7, <1>10, <1>11, <1>12, <1>13, <1>15, <1>16, StepKept

CarriesOut(r, s, p, m, record, k, q) ==
  /\ p = req[r] /\ p.pc = "next" /\ s \in p.todo /\ m = p.staged[s].member
  /\ record = IF p.old[m] = NoRow THEN row[m] ELSE p.new[m]
  /\ k = p.staged[s].to /\ ~Refused(p.staged[s], record)
  /\ q = [p EXCEPT !.pc = "rank", !.m = m, !.todo = @ \ {s}, !.done = @ \cup {s},
                   !.old[m] = IF p.old[m] = NoRow THEN record ELSE @,
                   !.new[m] = WithRank(record, k), !.log[m] = Append(@, <<record.rank, k>>)]
  /\ req' = [req EXCEPT ![r] = q]
  /\ crossed' = crossed \cup Sharing(r, {m})
  /\ UNCHANGED <<row, ranks, names, stages, nextcloud, begun, faults,
                 moved, unguarded, executed, breached>>

LEMMA StageExecuted ==
  ASSUME RosterInv, NEW r \in Slots, NEW s \in Stages, NEW p, NEW m, NEW record, NEW k, NEW q,
         CarriesOut(r, s, p, m, record, k, q)
  PROVE  RosterInv'
<1>a. p = req[r] /\ p.pc = "next" /\ s \in p.todo /\ m = p.staged[s].member /\ k = p.staged[s].to
  BY DEF CarriesOut
<1>b. record = (IF p.old[m] = NoRow THEN row[m] ELSE p.new[m])
      /\ (p.staged[s].up \in BOOLEAN => ~p.staged[s].up \/ ~record.hold)
  BY DEF CarriesOut, Refused
<1>c. PICK o, n, l : /\ o = IF p.old[m] = NoRow THEN record ELSE p.old[m]
                     /\ n = WithRank(record, k) /\ l = Append(p.log[m], <<record.rank, k>>)
  OBVIOUS
<1>d. q = [p EXCEPT !.pc = "rank", !.m = m, !.todo = p.todo \ {s}, !.done = p.done \cup {s},
                    !.old = [p.old EXCEPT ![m] = o], !.new = [p.new EXCEPT ![m] = n],
                    !.log = [p.log EXCEPT ![m] = l]]
  BY <1>c DEF CarriesOut
<1>e. /\ req' = [req EXCEPT ![r] = q] /\ crossed' = crossed \cup Sharing(r, {m})
      /\ UNCHANGED <<row, ranks, names, stages, nextcloud, begun, faults,
                     moved, unguarded, executed, breached>>
  BY DEF CarriesOut
<1>1. RequestsInv /\ TypeOK /\ TablesInv /\ CopyInv /\ StageInv /\ AloneInv
  BY DEF RosterInv
<1>2. p # NoRequest /\ p.op = "finalize"
  BY <1>a, <1>1, KindOfStep DEF Pcs
<1>3. /\ p \in RequestType /\ FinalizeShape(p) /\ WriteShape(p) /\ p.todo \subseteq Stages
      /\ p.staged \in [Stages -> StageType \cup {NoStage}]
      /\ p.old \in [Members -> RowType \cup {NoRow}]
      /\ p.new \in [Members -> RowType \cup {NoRow}]
      /\ p.log \in [Members -> Seq(Ranks \X Ranks)] /\ p.done \subseteq Stages
  BY <1>a, <1>1, <1>2, RequestFields DEF Shape
<1>4. m \in Members /\ k \in Ranks /\ p.staged[s].up \in BOOLEAN /\ p.staged[s] # NoStage
  BY <1>a, <1>3, StageFields DEF FinalizeShape
<1>5. /\ record \in RowType /\ o \in RowType /\ Same(o, record)
      /\ Explains(p.log[m], o.rank, record.rank)
      /\ NeverUp(p.log[m]) => record.rank <= o.rank
  <2>1. CASE p.old[m] = NoRow
    <3>1. record = row[m] /\ o = row[m] /\ row[m] \in RowType
      BY <1>b, <1>c, <1>1, <1>4, <2>1 DEF TypeOK
    <3>2. p.log[m] = << >>
      BY <1>3, <1>4, <2>1 DEF WriteShape
    <3>3. row[m].rank \in Nat
      BY <3>1, RowFields
    <3>4. Explains(p.log[m], row[m].rank, row[m].rank)
      BY <3>2 DEF Explains
    <3>5. QED
      BY <3>1, <3>3, <3>4 DEF Same
  <2>2. CASE p.old[m] # NoRow
    <3>1. record = p.new[m] /\ o = p.old[m] /\ p.new[m] # NoRow
      BY <1>b, <1>c, <1>3, <1>4, <2>2 DEF FinalizeShape
    <3>2. QED
      BY <1>2, <1>3, <1>4, <2>2, <3>1 DEF WriteShape
  <2>3. QED
    BY <2>1, <2>2
<1>6. /\ n \in RowType /\ n # NoRow /\ n.rank = k /\ Same(o, n) /\ o # NoRow /\ o.hold = record.hold
      /\ o.rank \in Ranks /\ record.rank \in Ranks /\ o.rank \in Nat /\ record.rank \in Nat /\ k \in Nat
  <2>1. n \in RowType /\ n.rank = k /\ Same(record, n)
    BY <1>c, <1>4, <1>5, WithRankIs
  <2>2. Same(o, n) /\ o.hold = record.hold
    BY <1>5, <2>1 DEF Same
  <2>3. QED
    BY <1>4, <1>5, <2>1, <2>2, RowFields, RankNumbers
<1>7. l \in Seq(Ranks \X Ranks) /\ Explains(l, o.rank, n.rank) /\ (NeverUp(l) => n.rank <= o.rank)
  <2>1. p.log[m] \in Seq(Ranks \X Ranks)
    BY <1>3, <1>4
  <2>2. l \in Seq(Ranks \X Ranks) /\ Explains(l, o.rank, k)
        /\ (NeverUp(l) => NeverUp(p.log[m]) /\ k <= record.rank)
    BY <1>c, <1>4, <1>5, <1>6, <2>1, LogsGrow
  <2>3. QED
    BY <1>5, <1>6, <2>2
<1>8. /\ q.pc = "rank" /\ q.m = m /\ q.op = "finalize" /\ q.todo = p.todo \ {s} /\ q.done = p.done \cup {s}
      /\ q.staged = p.staged /\ q.old = [p.old EXCEPT ![m] = o] /\ q.new = [p.new EXCEPT ![m] = n]
      /\ q.log = [p.log EXCEPT ![m] = l]
  BY <1>d, <1>2, <1>3 DEF RequestType
<1>9. /\ q.old[m] = o /\ q.new[m] = n /\ q.log[m] = l
      /\ \A x \in Members : x # m => q.old[x] = p.old[x] /\ q.new[x] = p.new[x] /\ q.log[x] = p.log[x]
  BY <1>3, <1>4, <1>8
<1>10. q \in RequestType
  <2>1. [p.old EXCEPT ![m] = o] \in [Members -> RowType \cup {NoRow}]
        /\ [p.new EXCEPT ![m] = n] \in [Members -> RowType \cup {NoRow}]
        /\ [p.log EXCEPT ![m] = l] \in [Members -> Seq(Ranks \X Ranks)]
    BY <1>3, <1>4, <1>5, <1>6, <1>7
  <2>2. QED
    BY <1>d, <1>3, <1>4, <2>1 DEF RequestType, Pcs
<1>11. q \in Requests
  <2>1. WriteShape(q)
    <3>1. ASSUME NEW x \in Members, x # m
          PROVE  /\ q.new[x] = NoRow => q.log[x] = << >>
                 /\ q.new[x] # NoRow =>
                     /\ q.old[x] # NoRow
                     /\ Explains(q.log[x], q.old[x].rank, q.new[x].rank)
                     /\ NeverUp(q.log[x]) => q.new[x].rank <= q.old[x].rank
                     /\ Same(q.old[x], q.new[x])
      BY <1>2, <1>3, <1>9, <3>1 DEF WriteShape
    <3>2. QED
      BY <1>6, <1>7, <1>8, <1>9, <3>1 DEF WriteShape
  <2>2. FinalizeShape(q)
    <3>1. q.todo \cap q.done = {} /\ \A i \in q.todo \cup q.done : q.staged[i] # NoStage
      BY <1>3, <1>4, <1>8 DEF FinalizeShape
    <3>2. \A i \in q.done : q.old[q.staged[i].member] # NoRow
      <4>1. ASSUME NEW i \in p.done PROVE q.old[p.staged[i].member] # NoRow
        <5>1. p.staged[i].member \in Members /\ p.old[p.staged[i].member] # NoRow
          BY <1>3, StageFields DEF FinalizeShape
        <5>2. QED
          BY <1>6, <1>9, <5>1
      <4>2. QED
        BY <1>a, <1>6, <1>8, <1>9, <4>1
    <3>3. \A x \in Members : q.old[x] # NoRow => q.new[x] # NoRow
      BY <1>3, <1>6, <1>9 DEF FinalizeShape
    <3>4. ASSUME NEW x \in Members, q.new[x] # NoRow, q.old[x].hold
          PROVE  \E i \in q.done : q.staged[i].member = x /\ ~q.staged[i].up
      <4>1. CASE x = m
        <5>1. ~p.staged[s].up
          BY <1>b, <1>4, <1>6, <1>9, <3>4, <4>1
        <5>2. QED
          BY <1>a, <1>8, <4>1, <5>1
      <4>2. CASE x # m
        BY <1>3, <1>8, <1>9, <3>4, <4>2 DEF FinalizeShape
      <4>3. QED
        BY <4>1, <4>2
    <3>5. q.pc = "rank" /\ q.m \in Members /\ q.new[q.m] # NoRow
      BY <1>4, <1>6, <1>8, <1>9
    <3>6. QED
      BY <3>1, <3>2, <3>3, <3>4, <3>5 DEF FinalizeShape
  <2>3. QED
    BY <1>8, <1>10, <2>1, <2>2 DEF Requests, Shape
<1>12. req'[r] = q /\ Others(r) /\ q # NoRequest
  <2>1. NoRequest.pc # "rank"
    BY DEF NoRequest
  <2>2. QED
    BY <1>e, <1>1, <1>8, <1>11, <2>1, GoesOn
<1>13. TypeOK' /\ TablesInv' /\ TablesSame /\ UNCHANGED <<rankGroups, teamGroups, leaders, unguarded, faults>>
      /\ crossed \subseteq crossed'
  <2>1. crossed' \subseteq Members /\ crossed \subseteq crossed'
    BY <1>e, <1>1, <1>4 DEF TablesInv, Sharing
  <2>2. QED
    BY <1>e, <1>1, <2>1 DEF TypeOK, TablesInv, TablesSame, nextcloud
<1>14. StageFits(r)'
  <2>1. \A i \in q.todo \cup q.done :
       /\ stages[i] # NoStage /\ stages[i].member = q.staged[i].member
       /\ stages[i].member \notin crossed => stages[i].status = "staged"
    BY <1>a, <1>1, <1>2, <1>8 DEF StageInv, StageFits
  <2>2. stages' = stages
    BY <1>13 DEF TablesSame
  <2>3. QED
    BY <1>8, <1>12, <1>13, <2>1, <2>2 DEF StageFits
<1>15. \A x \in Members : q.old[x] # NoRow /\ x \notin crossed' => row[x] = q.old[x]
  <2>1. \A x \in Members : p.old[x] # NoRow /\ x \notin crossed' => row[x] = p.old[x]
    BY <1>a, <1>1, <1>2, <1>13 DEF CopyInv, CopyFits, Committed
  <2>2. QED
    BY <1>b, <1>c, <1>9, <2>1
<1>16. m \in HasRead(r) /\ \A x \in HasRead(r)' : x \in HasRead(r)
  <2>1. HasRead(r) = {x \in Members : p.old[x] # NoRow} \cup {p.staged[i].member : i \in p.todo}
    BY <1>a, <1>2 DEF HasRead
  <2>2. HasRead(r)' = {x \in Members : q.old[x] # NoRow} \cup {q.staged[i].member : i \in q.todo}
    BY <1>12 DEF HasRead
  <2>3. m \in HasRead(r)
    BY <1>a, <2>1
  <2>4. QED
    BY <1>8, <1>9, <2>1, <2>2, <2>3
<1>17. /\ req[r] # NoRequest /\ ~Saving(r) /\ req[r].pc \notin {"migrate", "drop"}
       /\ q.pc \notin {"migrate", "drop"} /\ q.op = req[r].op
       /\ ~(q.pc = "commit" /\ q.op = "edit") /\ ~(q.op = "batch" /\ q.pc = "rank") /\ q.op # "move"
       /\ req' = [req EXCEPT ![r] = q]
  BY <1>a, <1>e, <1>2, <1>8 DEF Saving
<1>18. m \notin crossed' /\ faults' = 0 => RankFits(m)'
  <2> SUFFICES ASSUME m \notin crossed' PROVE RankFits(m)'
    OBVIOUS
  <2>1. ASSUME NEW i \in Slots, i # r PROVE ~Writes(i, m)'
    <3>1. ~Writes(i, m)
      BY <1>1, <1>4, <1>13, <1>16, <2>1, OnlyReader
    <3>2. QED
      BY <1>12, <2>1, <3>1 DEF Others, Writes
  <2>2. Writes(r, m)' /\ Syncing(r, m)'
    BY <1>6, <1>8, <1>9, <1>12 DEF Writes, Syncing
  <2>3. QED
    BY <2>1, <2>2 DEF RankFits
<1>19. \A x \in Members : x # m =>
         rankGroups'[x] = rankGroups[x] /\ q.old[x] = req[r].old[x] /\ q.new[x] = req[r].new[x]
           /\ ~Syncing(r, x)
  BY <1>a, <1>9, <1>13 DEF Syncing
<1>20. \A x \in Members : x \notin crossed' /\ faults' = 0 =>
          \/ RankFits(x)'
          \/ (rankGroups'[x] = rankGroups[x] /\ q.old[x] = req[r].old[x] /\ q.new[x] = req[r].new[x]
                /\ (Syncing(r, x) => q.new[x] = NoRow \/ (q.pc = "rank" /\ q.m = x)))
  BY <1>18, <1>19
<1>21. QED
  BY <1>11, <1>13, <1>14, <1>15, <1>16, <1>17, <1>20, StepKept

LEMMA ExecuteStageKept ==
  ASSUME RosterInv, NEW r \in Slots, NEW s \in Stages, ExecuteStage(r, s)
  PROVE  RosterInv'
<1>1. PICK p, m, record, k :
        /\ p = req[r] /\ m = p.staged[s].member
        /\ record = IF p.old[m] = NoRow THEN row[m] ELSE p.new[m]
        /\ k = p.staged[s].to
  OBVIOUS
<1>2. req[r].pc = "next" /\ s \in req[r].todo /\ crossed' = crossed \cup Sharing(r, {m})
      /\ UNCHANGED <<row, ranks, names, stages, nextcloud, begun, faults,
                     moved, unguarded, executed, breached>>
  BY <1>1 DEF ExecuteStage
<1>3. CASE Refused(p.staged[s], record)
  <2>1. req' = [req EXCEPT ![r].todo = @ \ {s}]
    BY <1>1, <1>3 DEF ExecuteStage
  <2>2. QED
    BY <1>1, <1>2, <2>1, StageRefused
<1>4. CASE ~Refused(p.staged[s], record)
  <2>1. PICK q : q = [p EXCEPT !.pc = "rank", !.m = m, !.todo = @ \ {s}, !.done = @ \cup {s},
                   !.old[m] = IF p.old[m] = NoRow THEN record ELSE @,
                   !.new[m] = WithRank(record, k), !.log[m] = Append(@, <<record.rank, k>>)]
    OBVIOUS
  <2>2. req' = [req EXCEPT ![r] = q]
    BY <1>1, <1>4, <2>1 DEF ExecuteStage, OldRank
  <2>3. CarriesOut(r, s, p, m, record, k, q)
    BY <1>1, <1>2, <1>4, <2>1, <2>2 DEF CarriesOut
  <2>4. QED
    BY <2>3, StageExecuted
<1>5. QED
  BY <1>3, <1>4

-----------------------------------------------------------------------------
(***************************************************************************)
(* The desk saves what it staged.                                          *)
(***************************************************************************)
LEMMA StageSaved ==
  ASSUME RosterInv, NEW r \in Slots, SaveStage(r)
  PROVE  /\ req[r] # NoRequest /\ req[r].m \in Members /\ req[r].m \in HasRead(r)
         /\ \E s \in Stages, v \in StageType :
              /\ stages' = [stages EXCEPT ![s] = v]
              /\ \/ stages[s] = NoStage
                 \/ /\ stages[s] # NoStage /\ stages[s].member = req[r].m /\ v.member = req[r].m
                    /\ req[r].m \notin crossed => stages[s].status = "staged"
<1>1. RequestsInv /\ TypeOK /\ TablesInv /\ StageInv
  BY DEF RosterInv
<1>2. PICK p : p = req[r]
  OBVIOUS
<1>3. p.pc = "save"
  BY <1>2 DEF SaveStage
<1>4. p # NoRequest /\ p.op \in {"stage", "remove", "restage"}
  BY <1>1, <1>2, <1>3, KindOfStep DEF Pcs
<1>5. StageShape(p) /\ p.s \in Stages \cup {0}
  BY <1>1, <1>2, <1>4, RequestFields DEF Shape
<1>6. p.m \in Members /\ p.m \in HasRead(r)
  BY <1>1, <1>2, <1>4, <1>5, WritersRead DEF StageShape
<1>7. 0 \notin Stages
  BY BoundsAssumption DEF Stages
<1>8. CASE p.s # 0
  <2>1. PICK s : s = p.s
    OBVIOUS
  <2>2. /\ s \in Stages /\ stages[s] # NoStage /\ stages[s].member = p.m
        /\ p.m \notin crossed => stages[s].status = "staged"
    BY <1>1, <1>2, <1>3, <1>5, <1>8, <2>1 DEF StageInv, StageFits
  <2>3. PICK w : w = stages[s]
    OBVIOUS
  <2>4. w \in StageType /\ w.member = p.m
    BY <1>1, <2>2, <2>3 DEF TypeOK
  <2>5. \E v \in StageType : stages' = [stages EXCEPT ![s] = v] /\ v.member = p.m
    <3>1. CASE p.op = "stage"
      <4>1. stages' = [stages EXCEPT ![s].from = p.stage.from, ![s].to = p.stage.to,
                                     ![s].up = p.stage.up]
        BY <1>2, <1>8, <2>1, <3>1 DEF SaveStage
      <4>2. PICK v : v = [w EXCEPT !.from = p.stage.from, !.to = p.stage.to, !.up = p.stage.up]
        OBVIOUS
      <4>3. stages' = [stages EXCEPT ![s] = v]
        BY <1>1, <2>2, <2>3, <4>1, <4>2 DEF TablesInv
      <4>4. p.stage.from \in Ranks /\ p.stage.to \in Ranks /\ p.stage.up \in BOOLEAN
        BY <1>5, <3>1, StageFields DEF StageShape
      <4>5. v \in StageType /\ v.member = p.m
        BY <2>4, <4>2, <4>4 DEF StageType
      <4>6. QED
        BY <4>3, <4>5
    <3>2. CASE p.op = "restage"
      <4>1. stages' = [stages EXCEPT ![s].to = p.stage.to, ![s].up = p.stage.up]
        BY <1>2, <2>1, <3>2 DEF SaveStage
      <4>2. PICK v : v = [w EXCEPT !.to = p.stage.to, !.up = p.stage.up]
        OBVIOUS
      <4>3. stages' = [stages EXCEPT ![s] = v]
        BY <1>1, <2>2, <2>3, <4>1, <4>2 DEF TablesInv
      <4>4. p.stage.to \in Ranks /\ p.stage.up \in BOOLEAN
        BY <1>5, <3>2, StageFields DEF StageShape
      <4>5. v \in StageType /\ v.member = p.m
        BY <2>4, <4>2, <4>4 DEF StageType
      <4>6. QED
        BY <4>3, <4>5
    <3>3. CASE p.op = "remove"
      <4>1. stages' = [stages EXCEPT ![s].status = "cancelled"]
        BY <1>2, <2>1, <3>3 DEF SaveStage
      <4>2. PICK v : v = [w EXCEPT !.status = "cancelled"]
        OBVIOUS
      <4>3. stages' = [stages EXCEPT ![s] = v]
        BY <1>1, <2>2, <2>3, <4>1, <4>2 DEF TablesInv
      <4>5. v \in StageType /\ v.member = p.m
        BY <2>4, <4>2 DEF StageType
      <4>6. QED
        BY <4>3, <4>5
    <3>4. QED
      BY <1>4, <3>1, <3>2, <3>3
  <2>6. QED
    BY <1>2, <1>4, <1>6, <2>2, <2>5
<1>9. CASE p.s = 0
  <2>1. PICK free : free = {s \in Stages : stages[s] = NoStage}
    OBVIOUS
  <2>2. p.op = "stage"
    BY <1>4, <1>5, <1>9 DEF StageShape
  <2>3. free # {} /\ stages' = [stages EXCEPT ![Min(free)] = p.stage]
    BY <1>2, <1>9, <2>1, <2>2 DEF SaveStage
  <2>4. Min(free) \in free
    BY <2>1, <2>3, MinIsLeast
  <2>5. p.stage \in StageType
    BY <1>5, <2>2 DEF StageShape
  <2>6. QED
    BY <1>2, <1>4, <1>6, <2>1, <2>3, <2>4, <2>5
<1>10. QED
  BY <1>8, <1>9

LEMMA SaveStageKept ==
  ASSUME RosterInv, NEW r \in Slots, SaveStage(r)
  PROVE  RosterInv'
<1>1. RequestsInv /\ TypeOK /\ TablesInv /\ StageInv /\ AloneInv /\ CopyInv
  BY DEF RosterInv
<1>2. req[r].pc = "save" /\ End(r) /\ UNCHANGED <<row, ranks, names, nextcloud, begun, faults, history>>
  BY DEF SaveStage
<1>3. /\ req[r] # NoRequest /\ req[r].m \in Members /\ req[r].m \in HasRead(r)
      /\ \E s \in Stages, v \in StageType :
              /\ stages' = [stages EXCEPT ![s] = v]
              /\ \/ stages[s] = NoStage
                 \/ /\ stages[s] # NoStage /\ stages[s].member = req[r].m /\ v.member = req[r].m
                    /\ req[r].m \notin crossed => stages[s].status = "staged"
  BY StageSaved
<1>4. PICK s \in Stages, v \in StageType :
              /\ stages' = [stages EXCEPT ![s] = v]
              /\ \/ stages[s] = NoStage
                 \/ /\ stages[s] # NoStage /\ stages[s].member = req[r].m /\ v.member = req[r].m
                    /\ req[r].m \notin crossed => stages[s].status = "staged"
  BY <1>3
<1>5. stages'[s] = v /\ v # NoStage /\ \A i \in Stages : i # s => stages'[i] = stages[i]
  BY <1>1, <1>4, StageFields DEF TablesInv
<1>6. req'[r] = NoRequest /\ Others(r) /\ RequestsInv'
  BY <1>1, <1>2, GoesOn DEF End
<1>7. WriteShape(req[r]) /\ req[r].op \in {"stage", "remove", "restage"}
  BY <1>1, <1>2, <1>3, RequestFields, KindOfStep DEF Shape
<1>8. UNCHANGED <<row, ranks, names, rankGroups, teamGroups, leaders, begun, faults>>
      /\ UNCHANGED <<crossed, moved, unguarded, executed, breached>> /\ RowsSame
  BY <1>2 DEF nextcloud, history, RowsSame
<1>9. TypeOK' /\ TablesInv'
  BY <1>1, <1>4, <1>5, <1>8 DEF TypeOK, TablesInv
<1>10. /\ ~Saving(r) /\ ~Saving(r)' /\ ~Crowning(r)' /\ ~Renames(r) /\ ~Renames(r)' /\ HasRead(r)' = {}
       /\ \A m \in Members : ~Writes(r, m) /\ ~Writes(r, m)' /\ Settled(r, m)
  <2>1. \A m \in Members : req[r].new[m] = NoRow
    BY <1>7 DEF WriteShape
  <2>2. NoRequest.pc = "none"
    BY DEF NoRequest
  <2>3. QED
    BY <1>2, <1>6, <1>7, <2>1, <2>2
       DEF Saving, Crowning, Renames, Migrates, Drops, HasRead, Writes, Settled
<1>11. AloneInv'
  BY <1>1, <1>6, <1>8, <1>10, AloneFrame
<1>12. CopyInv'
  <2>1. CopyFits(r)'
    BY <1>6 DEF CopyFits
  <2>2. QED
    BY <1>1, <1>6, <1>8, <2>1, CopyFrame
<1>13. StageInv'
  <2>1. \A i \in Stages : stages'[i] = NoStage => executed'[i] = 0
    BY <1>1, <1>5, <1>8 DEF StageInv
  <2>2. ASSUME NEW i \in Stages, stages'[i] # NoStage, executed'[i] # 0, stages'[i].member \notin crossed'
        PROVE  stages'[i].status = "finalized"
    <3>1. i # s
      <4>1. SUFFICES ASSUME i = s PROVE FALSE
        OBVIOUS
      <4>2. executed[s] # 0 /\ stages[s] # NoStage
        BY <1>1, <1>8, <2>2, <4>1 DEF StageInv
      <4>3. stages[s].member = req[r].m /\ req[r].m \notin crossed /\ stages[s].status = "staged"
        BY <1>4, <1>5, <1>8, <2>2, <4>1, <4>2
      <4>4. stages[s].status = "finalized"
        BY <1>1, <4>2, <4>3 DEF StageInv
      <4>5. QED
        BY <4>3, <4>4
    <3>2. QED
      BY <1>1, <1>5, <1>8, <2>2, <3>1 DEF StageInv
  <2>3. ASSUME NEW t \in Slots PROVE StageFits(t)'
    <3>1. CASE t = r
      <4>1. NoRequest.pc # "save"
        BY DEF NoRequest
      <4>2. QED
        BY <1>6, <3>1, <4>1 DEF StageFits
    <3>2. CASE t # r
      <4>1. req'[t] = req[t]
        BY <1>6, <3>2 DEF Others
      <4>2. StageFits(t)
        BY <1>1 DEF StageInv
      <4>3. ASSUME req[t] # NoRequest, NEW i \in req[t].todo \cup req[t].done
            PROVE  /\ stages'[i] # NoStage /\ stages'[i].member = req[t].staged[i].member
                   /\ stages'[i].member \notin crossed => stages'[i].status = "staged"
        <5>1. /\ i \in Stages /\ stages[i] # NoStage /\ stages[i].member = req[t].staged[i].member
              /\ stages[i].member \notin crossed => stages[i].status = "staged"
          BY <1>1, <4>2, <4>3, RequestFields DEF StageFits
        <5>2. CASE i = s
          <6>1. stages[s].member = req[r].m /\ v.member = req[r].m
            BY <1>4, <5>1, <5>2
          <6>2. req[r].m \in HasRead(t)
            BY <1>1, <4>3, <5>1, <5>2, <6>1, WritersRead
          <6>3. req[r].m \in crossed
            BY <1>1, <1>3, <3>2, <6>2 DEF AloneInv
          <6>4. QED
            BY <1>5, <5>1, <5>2, <6>1, <6>3
        <5>3. CASE i # s
          BY <1>5, <5>1, <5>3
        <5>4. QED
          BY <5>2, <5>3
      <4>4. ASSUME req[t].pc = "save", req[t].s # 0
            PROVE  /\ stages'[req[t].s] # NoStage /\ stages'[req[t].s].member = req[t].m
                   /\ req[t].m \notin crossed => stages'[req[t].s].status = "staged"
        <5>1. PICK i : i = req[t].s
          OBVIOUS
        <5>2. req[t] # NoRequest /\ req[t].op \in {"stage", "remove", "restage"}
          BY <1>1, <4>4, KindOfStep DEF Pcs
        <5>3. /\ i \in Stages /\ stages[i] # NoStage /\ stages[i].member = req[t].m
              /\ req[t].m \notin crossed => stages[i].status = "staged"
          BY <1>1, <4>2, <4>4, <5>1, <5>2, RequestFields DEF StageFits
        <5>4. CASE i = s
          <6>1. stages[s].member = req[r].m /\ v.member = req[r].m
            BY <1>4, <5>3, <5>4
          <6>2. StageShape(req[t])
            BY <1>1, <5>2, RequestFields DEF Shape
          <6>3. req[t].m \in HasRead(t)
            BY <1>1, <5>2, <6>2, WritersRead DEF StageShape
          <6>4. req[r].m \in crossed
            BY <1>1, <1>3, <3>2, <5>3, <5>4, <6>1, <6>3 DEF AloneInv
          <6>5. QED
            BY <1>5, <5>1, <5>3, <5>4, <6>1, <6>4
        <5>5. CASE i # s
          BY <1>5, <5>1, <5>3, <5>5
        <5>6. QED
          BY <5>4, <5>5
      <4>5. crossed' = crossed
        BY <1>8
      <4>6. QED
        BY <4>1, <4>3, <4>4, <4>5 DEF StageFits
    <3>3. QED
      BY <3>1, <3>2
  <2>4. QED
    BY <2>1, <2>2, <2>3 DEF StageInv
<1>14. TitleInv'
  <2>1. TitleFits(r)'
    BY <1>10 DEF TitleFits
  <2>2. QED
    BY <1>6, <1>8, <1>10, <2>1, TitleFrame DEF RosterInv
<1>15. ChainInv' /\ HoldsAreKept' /\ OneLeader'
  BY <1>8, TablesFrame DEF RosterInv
<1>16. RankGroupInv'
  BY <1>6, <1>8, <1>10, RankFrame DEF RosterInv
<1>17. TeamGroupInv'
  <2>1. crossed' \subseteq Members
    BY <1>9 DEF TablesInv
  <2>2. QED
    BY <1>6, <1>8, <1>10, <2>1, TeamFrame DEF RosterInv
<1>18. LeadersInv'
  BY <1>6, <1>8, <1>10, LeadersFrame DEF RosterInv
<1>19. QED
  BY <1>6, <1>9, <1>11, <1>12, <1>13, <1>14, <1>15, <1>16, <1>17, <1>18 DEF RosterInv

-----------------------------------------------------------------------------
(***************************************************************************)
(* The groups of teams: a member who moves, and a renaming.                *)
(***************************************************************************)
LEMMA SyncMoveKept ==
  ASSUME RosterInv, NEW r \in Slots, SyncMove(r)
  PROVE  RosterInv'
<1>1. RequestsInv /\ TypeOK /\ TablesInv /\ CopyInv /\ AloneInv
  BY DEF RosterInv
<1>2. PICK m, t : m = req[r].m /\ t = req[r].new[m].team
  OBVIOUS
<1>3. /\ req[r].pc = "team" /\ At(r, "commit")
      /\ teamGroups' = [teamGroups EXCEPT ![m] = IF teamGroups[m] \subseteq {t} THEN {t} ELSE teamGroups[m]]
      /\ UNCHANGED <<row, ranks, names, stages, rankGroups, leaders, begun, faults, history>>
  BY <1>2 DEF SyncMove
<1>4. req[r] # NoRequest /\ req[r].op = "move"
  BY <1>1, <1>3, KindOfStep DEF Pcs
<1>5. Shape(req[r]) /\ MoveShape(req[r])
  BY <1>1, <1>4, RequestFields DEF Shape
<1>6. m \in Members /\ t \in Teams /\ m \in HasRead(r)
  <2>1. m \in Members /\ req[r].new[m] # NoRow
    BY <1>2, <1>5 DEF MoveShape
  <2>2. QED
    BY <1>1, <1>2, <1>4, <2>1, RequestFields, RowFields, WritersRead
<1>7. "commit" \in Pcs
  BY DEF Pcs
<1>8. PICK q \in RequestType :
           /\ req' = [req EXCEPT ![r] = q] /\ req'[r] = q /\ q.pc = "commit" /\ q # NoRequest
           /\ q.op = req[r].op /\ q.m = req[r].m /\ q.old = req[r].old /\ q.new = req[r].new
           /\ q.log = req[r].log /\ q.staged = req[r].staged /\ q.todo = req[r].todo
           /\ q.done = req[r].done /\ q.from = req[r].from /\ q.to = req[r].to
           /\ WriteShape(q) /\ HasRead(r)' = HasRead(r)
  BY <1>1, <1>3, <1>4, <1>7, AtIs
<1>9. q \in Requests
  <2>1. MoveShape(q)
    BY <1>5, <1>8 DEF MoveShape
  <2>2. QED
    BY <1>4, <1>5, <1>8, <2>1 DEF Requests, Shape
<1>10. UNCHANGED <<row, ranks, names, stages, rankGroups, leaders, begun, faults, unguarded, crossed, moved>>
       /\ TablesSame
  BY <1>3 DEF history, TablesSame
<1>11. TypeOK' /\ TablesInv' /\ \A x \in Members : x # m => teamGroups'[x] = teamGroups[x]
  <2>1. teamGroups' \in [Members -> SUBSET Teams] /\ \A x \in Members : x # m => teamGroups'[x] = teamGroups[x]
    BY <1>1, <1>3, <1>6 DEF TypeOK
  <2>2. executed' = executed
    BY <1>10 DEF TablesSame
  <2>3. QED
    BY <1>1, <1>10, <2>1, <2>2 DEF TypeOK, TablesInv
<1>12. Others(r)
  BY <1>1, <1>8, <1>9, GoesOn
<1>13. TeamGroupInv'
  <2> SUFFICES ASSUME faults = 0 PROVE TeamGroupInv'
    BY <1>10 DEF TeamGroupInv
  <2>1. /\ \A s, i \in Slots : s # i /\ Renames(s) /\ Renames(i) => crossed = Members
        /\ \A s \in Slots : Saving(s) /\ req[s].m \notin crossed
             => teamGroups[req[s].m] = {req[s].new[req[s].m].team} /\ \A i \in Slots : ~Renames(i)
        /\ \A x \in Members \ (crossed \cup moved) : TeamFits(x)
    BY DEF RosterInv, TeamGroupInv
  <2>2. ~Saving(r) /\ ~Saving(r)' /\ ~Renames(r) /\ ~Renames(r)' /\ ~Migrates(r) /\ ~Migrates(r)'
    BY <1>3, <1>4, <1>8 DEF Saving, Renames, Migrates, Drops
  <2>3. \A s \in Slots : s # r => /\ req'[s] = req[s] /\ (Saving(s)' <=> Saving(s))
                                  /\ (Renames(s)' <=> Renames(s)) /\ (Migrates(s)' <=> Migrates(s))
                                  /\ \A x \in Members : Settled(s, x)' <=> Settled(s, x)
    BY <1>12 DEF Others, Saving, Renames, Migrates, Drops, Settled
  <2>4. \A s, i \in Slots : s # i /\ Renames(s)' /\ Renames(i)' => crossed' = Members
    BY <1>10, <2>1, <2>2, <2>3
  <2>5. ASSUME NEW s \in Slots, Saving(s)', req'[s].m \notin crossed'
        PROVE  teamGroups'[req'[s].m] = {req'[s].new[req'[s].m].team} /\ \A i \in Slots : ~Renames(i)'
    <3>1. s # r /\ Saving(s) /\ req'[s] = req[s] /\ req[s].m \notin crossed
      BY <1>10, <2>2, <2>3, <2>5
    <3>2. req[s] # NoRequest /\ req[s].op = "edit" /\ req[s].pc = "commit"
      BY <3>1 DEF Saving, NoRequest
    <3>3. EditShape(req[s])
      BY <1>1, <3>2, RequestFields DEF Shape
    <3>4. req[s].m \in Members /\ req[s].m \in HasRead(s)
      BY <1>1, <3>2, <3>3, WritersRead DEF EditShape
    <3>5. req[s].m # m
      BY <1>1, <1>6, <3>1, <3>4 DEF AloneInv
    <3>6. teamGroups'[req[s].m] = teamGroups[req[s].m]
      BY <1>11, <3>4, <3>5
    <3>7. QED
      BY <2>1, <2>2, <2>3, <3>1, <3>6
  <2>6. ASSUME NEW x \in Members, x \notin crossed', x \notin moved', \A s \in Slots : Settled(s, x)'
        PROVE  TeamFits(x)'
    <3>1. x # m
      BY <1>2, <1>4, <1>8, <2>6 DEF Settled
    <3>2. \A s \in Slots : Settled(s, x)
      BY <1>2, <2>3, <2>6, <3>1 DEF Settled
    <3>3. TeamFits(x) /\ teamGroups'[x] = teamGroups[x] /\ row' = row
      BY <1>10, <1>11, <2>1, <2>6, <3>1
    <3>4. QED
      BY <2>2, <2>3, <3>2, <3>3 DEF TeamFits
  <2>7. \A x \in Members : x \notin crossed' /\ x \notin moved' => TeamFits(x)'
    BY <2>6 DEF TeamFits
  <2>8. QED
    BY <2>4, <2>5, <2>7 DEF TeamGroupInv
<1>14. StageFits(r)'
  BY <1>4, <1>5, <1>8 DEF StageFits, Shape
<1>15. \A x \in Members : q.old[x] # NoRow /\ x \notin crossed' => row[x] = q.old[x]
  BY <1>1, <1>4, <1>8, <1>10 DEF CopyInv, CopyFits, Committed
<1>16. \A x \in Members : x \notin crossed' /\ faults' = 0 =>
          \/ RankFits(x)'
          \/ (rankGroups'[x] = rankGroups[x] /\ q.old[x] = req[r].old[x] /\ q.new[x] = req[r].new[x]
                /\ (Syncing(r, x) => q.new[x] = NoRow \/ (q.pc = "rank" /\ q.m = x)))
  BY <1>3, <1>8, <1>10 DEF Syncing
<1>17. /\ ~Saving(r) /\ ~(q.pc = "commit" /\ q.op = "edit") /\ ~(q.op = "batch" /\ q.pc = "rank")
       /\ q.op = req[r].op /\ (faults' = 0 => faults = 0) /\ UNCHANGED <<leaders, unguarded>>
       /\ req' = [req EXCEPT ![r] = q] /\ HasRead(r)' = HasRead(r) /\ crossed \subseteq crossed'
  BY <1>3, <1>4, <1>8, <1>10 DEF Saving
<1>18. QED
  BY <1>4, <1>9, <1>10, <1>11, <1>13, <1>14, <1>15, <1>16, <1>17, GoesOnKept

\* What the two steps of a renaming do to the groups of teams.
LEMMA RenamingKept ==
  ASSUME RosterInv, NEW r \in Slots, Renames(r), Others(r), ~Saving(r)', ~Migrates(r)',
         req'[r].op # "move" \/ req'[r] = NoRequest,
         row' = row, moved' = moved, crossed' = crossed, faults' = 0 => faults = 0,
         Renames(r)' => req'[r].from = req[r].from /\ req'[r].to = req[r].to,
         NEW a, a = req[r].from, NEW b, b = req[r].to,
         faults' = 0 => \A x \in Members :
           teamGroups'[x] = IF Drops(r) THEN teamGroups[x] \ {a}
                            ELSE IF a \in teamGroups[x] THEN teamGroups[x] \cup {b} ELSE teamGroups[x],
         Renames(r)' <=> ~Drops(r)
  PROVE  TeamGroupInv'
<1> SUFFICES ASSUME faults' = 0 PROVE TeamGroupInv'
  BY DEF TeamGroupInv
<1>1. RequestsInv /\ TypeOK
  BY DEF RosterInv
<1>2. req[r] # NoRequest /\ req[r].op = "rename"
  BY <1>1, KindOfStep DEF Renames, Migrates, Drops, Pcs
<1>3. a # b
  BY <1>1, <1>2, RequestFields DEF Shape, RenameShape
<1>4. /\ \A s, i \in Slots : s # i /\ Renames(s) /\ Renames(i) => crossed = Members
      /\ \A s \in Slots : Saving(s) /\ req[s].m \notin crossed
           => teamGroups[req[s].m] = {req[s].new[req[s].m].team} /\ \A i \in Slots : ~Renames(i)
      /\ \A x \in Members \ (crossed \cup moved) : TeamFits(x)
  BY DEF RosterInv, TeamGroupInv
<1>5. \A s \in Slots : s # r => /\ req'[s] = req[s] /\ (Saving(s)' <=> Saving(s))
                                /\ (Renames(s)' <=> Renames(s)) /\ (Migrates(s)' <=> Migrates(s))
                                /\ \A x \in Members : Settled(s, x)' <=> Settled(s, x)
  BY DEF Others, Saving, Renames, Migrates, Drops, Settled
<1>6. \A s, i \in Slots : s # i /\ Renames(s)' /\ Renames(i)' => crossed' = Members
  BY <1>4, <1>5
<1>7. \A s \in Slots : Saving(s)' => req'[s].m \in crossed'
  BY <1>4, <1>5
<1>8. ASSUME NEW x \in Members, x \notin crossed', x \notin moved', \A s \in Slots : Settled(s, x)'
      PROVE  TeamFits(x)'
  <2>1. \A s \in Slots : Settled(s, x)
    <3>1. Settled(r, x)
      BY <1>2 DEF Settled, Saving, Renames, Migrates, Drops
    <3>2. QED
      BY <1>5, <1>8, <3>1
  <2>2. \A s \in Slots : s # r => ~Renames(s) /\ ~Renames(s)'
    BY <1>4, <1>5, <1>8
  <2>3. /\ row[x].team # a
        /\ \/ teamGroups[x] = {row[x].team}
           \/ row[x].team = b /\ teamGroups[x] = IF Migrates(r) THEN {a} ELSE {a, b}
    BY <1>4, <1>8, <2>1 DEF TeamFits
  <2>4. Drops(r) \/ Migrates(r)
    BY DEF Renames
  <2>5. CASE Drops(r)
    <3>1. ~Migrates(r)
      BY <2>5 DEF Drops, Migrates
    <3>2. teamGroups'[x] = {row[x].team}
      BY <1>3, <2>3, <2>5, <3>1
    <3>3. \A s \in Slots : ~Renames(s)'
      BY <2>2, <2>5
    <3>4. QED
      BY <3>2, <3>3 DEF TeamFits
  <2>6. CASE ~Drops(r)
    <3>1. \/ teamGroups'[x] = {row[x].team}
          \/ row[x].team = b /\ teamGroups'[x] = {a, b}
      BY <2>3, <2>4, <2>6
    <3>2. Renames(r)' /\ req'[r].from = a /\ req'[r].to = b
      BY <2>6
    <3>3. \A s \in Slots : Renames(s)' => s = r
      BY <2>2
    <3>4. QED
      BY <2>3, <3>1, <3>2, <3>3 DEF TeamFits
  <2>7. QED
    BY <2>5, <2>6
<1>9. \A x \in Members : x \notin crossed' /\ x \notin moved' => TeamFits(x)'
  BY <1>8 DEF TeamFits
<1>10. QED
  BY <1>6, <1>7, <1>9 DEF TeamGroupInv

LEMMA MigrateKept ==
  ASSUME RosterInv, NEW r \in Slots, NEW lost \in BOOLEAN, Migrate(r, lost)
  PROVE  RosterInv'
<1>1. RequestsInv /\ TypeOK /\ TablesInv /\ CopyInv /\ AloneInv
  BY DEF RosterInv
<1>2. PICK a, b : a = req[r].from /\ b = req[r].to
  OBVIOUS
<1>3. /\ req[r].pc = "migrate" /\ At(r, "drop")
      /\ UNCHANGED <<row, ranks, names, stages, rankGroups, leaders, begun, history>>
  BY DEF Migrate, RenameNext, RenameOrder
<1>4. req[r] # NoRequest /\ req[r].op = "rename"
  BY <1>1, <1>3, KindOfStep DEF Pcs
<1>5. Shape(req[r]) /\ RenameShape(req[r])
  BY <1>1, <1>4, RequestFields DEF Shape
<1>6. faults' \in 0..MaxFaults /\ teamGroups' \in [Members -> SUBSET Teams]
  <2>1. faults' \in 0..MaxFaults
    BY <1>1, BoundsAssumption DEF TypeOK, Migrate
  <2>2. b \in Teams
    BY <1>2, <1>5 DEF RenameShape
  <2>3. \/ teamGroups' = teamGroups
        \/ teamGroups' = [m \in Members |-> IF a \in teamGroups[m]
                             THEN teamGroups[m] \cup {b} ELSE teamGroups[m]]
    BY <1>2 DEF Migrate
  <2>4. QED
    BY <1>1, <2>1, <2>2, <2>3 DEF TypeOK
<1>7. faults' = 0 => /\ faults = 0
                     /\ \A x \in Members : teamGroups'[x] =
                          IF a \in teamGroups[x] THEN teamGroups[x] \cup {b} ELSE teamGroups[x]
  <2>1. faults \in Nat
    BY <1>1, BoundsAssumption DEF TypeOK
  <2>2. \/ faults' = faults + 1
        \/ /\ faults' = faults
           /\ teamGroups' = [m \in Members |-> IF a \in teamGroups[m]
                             THEN teamGroups[m] \cup {b} ELSE teamGroups[m]]
    BY <1>2 DEF Migrate
  <2>3. QED
    BY <2>1, <2>2
<1>8. "drop" \in Pcs
  BY DEF Pcs
<1>9. PICK q \in RequestType :
           /\ req' = [req EXCEPT ![r] = q] /\ req'[r] = q /\ q.pc = "drop" /\ q # NoRequest
           /\ q.op = req[r].op /\ q.m = req[r].m /\ q.old = req[r].old /\ q.new = req[r].new
           /\ q.log = req[r].log /\ q.staged = req[r].staged /\ q.todo = req[r].todo
           /\ q.done = req[r].done /\ q.from = req[r].from /\ q.to = req[r].to
           /\ WriteShape(q) /\ HasRead(r)' = HasRead(r)
  BY <1>1, <1>3, <1>4, <1>8, AtIs
<1>10. q \in Requests
  <2>1. RenameShape(q)
    BY <1>5, <1>9 DEF RenameShape
  <2>2. QED
    BY <1>4, <1>5, <1>9, <2>1 DEF Requests, Shape
<1>11. UNCHANGED <<row, ranks, names, stages, rankGroups, leaders, begun, unguarded, crossed, moved>>
       /\ TablesSame
  BY <1>3 DEF history, TablesSame
<1>12. TypeOK' /\ TablesInv'
  <2>1. executed' = executed
    BY <1>11 DEF TablesSame
  <2>2. QED
    BY <1>1, <1>6, <1>11, <2>1 DEF TypeOK, TablesInv
<1>13. Others(r)
  BY <1>1, <1>9, <1>10, GoesOn
<1>14. TeamGroupInv'
  <2>1. Renames(r) /\ ~Drops(r) /\ Renames(r)' /\ ~Saving(r)' /\ ~Migrates(r)'
    BY <1>3, <1>9 DEF Renames, Migrates, Drops, Saving
  <2>2. req'[r].op # "move" /\ req'[r].from = req[r].from /\ req'[r].to = req[r].to
    BY <1>4, <1>9
  <2>3. faults' = 0 => \A x \in Members :
           teamGroups'[x] = IF Drops(r) THEN teamGroups[x] \ {a}
                            ELSE IF a \in teamGroups[x] THEN teamGroups[x] \cup {b} ELSE teamGroups[x]
    BY <1>7, <2>1
  <2>4. QED
    BY <1>2, <1>7, <1>11, <1>13, <2>1, <2>2, <2>3, RenamingKept
<1>15. StageFits(r)'
  BY <1>4, <1>5, <1>9 DEF StageFits, Shape
<1>16. \A x \in Members : q.old[x] # NoRow /\ x \notin crossed' => row[x] = q.old[x]
  BY <1>5, <1>9 DEF RenameShape
<1>17. \A x \in Members : x \notin crossed' /\ faults' = 0 =>
          \/ RankFits(x)'
          \/ (rankGroups'[x] = rankGroups[x] /\ q.old[x] = req[r].old[x] /\ q.new[x] = req[r].new[x]
                /\ (Syncing(r, x) => q.new[x] = NoRow \/ (q.pc = "rank" /\ q.m = x)))
  BY <1>3, <1>9, <1>11 DEF Syncing
<1>18. /\ ~Saving(r) /\ ~(q.pc = "commit" /\ q.op = "edit") /\ ~(q.op = "batch" /\ q.pc = "rank")
       /\ q.op = req[r].op /\ (faults' = 0 => faults = 0) /\ UNCHANGED <<leaders, unguarded>>
       /\ req' = [req EXCEPT ![r] = q] /\ HasRead(r)' = HasRead(r) /\ crossed \subseteq crossed'
  BY <1>3, <1>4, <1>7, <1>9, <1>11 DEF Saving
<1>19. QED
  BY <1>4, <1>10, <1>11, <1>12, <1>14, <1>15, <1>16, <1>17, <1>18, GoesOnKept

LEMMA DropKept ==
  ASSUME RosterInv, NEW r \in Slots, Drop(r)
  PROVE  RosterInv'
<1>1. RequestsInv /\ TypeOK /\ TablesInv
  BY DEF RosterInv
<1>2. PICK a, b : a = req[r].from /\ b = req[r].to
  OBVIOUS
<1>3. /\ req[r].pc = "drop" /\ End(r)
      /\ teamGroups' = [m \in Members |-> teamGroups[m] \ {a}]
      /\ UNCHANGED <<row, ranks, names, stages, rankGroups, leaders, begun, faults, history>>
  BY <1>2 DEF Drop, RenameNext, RenameOrder
<1>4. req[r] # NoRequest /\ req[r].op = "rename" /\ WriteShape(req[r])
  <2>1. req[r] # NoRequest /\ req[r].op = "rename"
    BY <1>1, <1>3, KindOfStep DEF Pcs
  <2>2. QED
    BY <1>1, <2>1, RequestFields DEF Shape
<1>5. req'[r] = NoRequest /\ Others(r)
  BY <1>1, <1>3, GoesOn DEF End
<1>6. UNCHANGED <<row, ranks, names, stages, rankGroups, leaders, begun, faults, unguarded, crossed, moved>>
      /\ TablesSame
  BY <1>3 DEF history, TablesSame
<1>7. TypeOK' /\ TablesInv'
  <2>1. executed' = executed /\ teamGroups' \in [Members -> SUBSET Teams]
    BY <1>1, <1>3, <1>6 DEF TablesSame, TypeOK
  <2>2. QED
    BY <1>1, <1>6, <2>1 DEF TypeOK, TablesInv
<1>8. TeamGroupInv'
  <2>1. Renames(r) /\ Drops(r) /\ ~Renames(r)' /\ ~Saving(r)' /\ ~Migrates(r)'
    BY <1>3, <1>5 DEF Renames, Migrates, Drops, Saving, NoRequest
  <2>2. \A x \in Members : teamGroups'[x] = teamGroups[x] \ {a}
    BY <1>3
  <2>3. \A x \in Members :
           teamGroups'[x] = IF Drops(r) THEN teamGroups[x] \ {a}
                            ELSE IF a \in teamGroups[x] THEN teamGroups[x] \cup {b} ELSE teamGroups[x]
    BY <2>1, <2>2
  <2>4. QED
    BY <1>2, <1>5, <1>6, <2>1, <2>3, RenamingKept
<1>9. \A x \in Members : x \notin crossed' /\ faults' = 0 =>
           RankFits(x)' \/ (rankGroups'[x] = rankGroups[x] /\ ~Writes(r, x))
  BY <1>4, <1>6 DEF Writes, WriteShape
<1>10. ~Saving(r) /\ crossed \subseteq crossed' /\ (faults' = 0 => faults = 0) /\ UNCHANGED <<leaders, unguarded>>
  BY <1>3, <1>6 DEF Saving
<1>11. QED
  BY <1>3, <1>6, <1>7, <1>8, <1>9, <1>10, EndsKept

-----------------------------------------------------------------------------
(***************************************************************************)
(* A restart.                                                              *)
(***************************************************************************)
LEMMA CrashKept ==
  ASSUME RosterInv, Crash
  PROVE  RosterInv'
<1>1. RequestsInv /\ TypeOK /\ TablesInv /\ ChainInv /\ StageInv /\ HoldsAreKept /\ OneLeader
  BY DEF RosterInv
<1>2. /\ faults < MaxFaults /\ faults' = faults + 1
      /\ req' = [r \in Slots |-> NoRequest]
      /\ UNCHANGED <<row, ranks, names, stages, nextcloud, begun, history>>
  BY DEF Crash
<1>3. UNCHANGED <<row, ranks, names, stages, rankGroups, teamGroups, leaders, begun,
                  crossed, moved, unguarded, executed, breached>>
  BY <1>2 DEF nextcloud, history
<1>4. faults' \in 0..MaxFaults /\ faults' # 0
  BY <1>1, <1>2, BoundsAssumption DEF TypeOK
<1>5. TypeOK' /\ TablesInv'
  BY <1>1, <1>3, <1>4 DEF TypeOK, TablesInv
<1>6. \A r \in Slots : req'[r] = NoRequest
  BY <1>2
<1>7. RequestsInv'
  BY <1>2 DEF RequestsInv
<1>8. AloneInv'
  BY <1>6 DEF AloneInv, HasRead
<1>9. CopyInv'
  BY <1>6 DEF CopyInv, CopyFits
<1>10. ChainInv' /\ HoldsAreKept' /\ OneLeader'
  BY <1>1, <1>3 DEF ChainInv, HoldsAreKept, OneLeader
<1>11. StageInv'
  <2>1. \A r \in Slots : StageFits(r)'
    BY <1>6 DEF StageFits, NoRequest
  <2>2. QED
    BY <1>1, <1>3, <2>1 DEF StageInv
<1>12. TitleInv'
  <2>1. \A r \in Slots : ~Crowning(r)'
    BY <1>6 DEF Crowning, Saving, NoRequest
  <2>2. QED
    BY <2>1 DEF TitleInv, TitleFits
<1>13. RankGroupInv' /\ TeamGroupInv' /\ LeadersInv'
  BY <1>4 DEF RankGroupInv, TeamGroupInv, LeadersInv
<1>14. QED
  BY <1>5, <1>7, <1>8, <1>9, <1>10, <1>11, <1>12, <1>13 DEF RosterInv

-----------------------------------------------------------------------------
(***************************************************************************)
(* The commit.                                                             *)
(***************************************************************************)
\* A request that commits, and what is left of it: of a batch, the group of the rank.
Leaves(r, p) ==
  /\ Others(r) /\ RequestsInv' /\ HasRead(r)' \subseteq HasRead(r)
  /\ ~Saving(r)' /\ ~Renames(r)' /\ ~Migrates(r)' /\ ~Renames(r) /\ ~Migrates(r)
  /\ p.op # "batch" => req'[r] = NoRequest
  /\ p.op = "batch" => /\ req'[r] # NoRequest /\ Committed(r)' /\ req'[r].pc = "rank"
                       /\ req'[r].op = "batch" /\ req'[r].m = p.m
                       /\ req'[r].old = p.old /\ req'[r].new = p.new
                       /\ req'[r].todo = {} /\ req'[r].done = {}
\* What it writes of members whom nobody else had read.
Writing(r, p) ==
  \A m \in Members :
    /\ p.new[m] = NoRow => row'[m] = row[m] /\ ranks'[m] = ranks[m]
    /\ m \notin crossed /\ p.new[m] # NoRow =>
         /\ p.old[m] \in RowType /\ p.new[m] \in RowType /\ row[m] = p.old[m] /\ row'[m] = p.new[m]
         /\ ranks'[m] = ranks[m] \o p.log[m]
         /\ \A s \in Slots : s # r => m \notin HasRead(s) /\ ~Writes(s, m)
Commits(r, p) ==
  /\ p = req[r] /\ p # NoRequest /\ Shape(p) /\ p \in RequestType /\ p.pc = "commit"
  /\ p.op \in {"edit", "promote", "batch", "finalize", "move"}
  /\ Commit(r)
  /\ UNCHANGED <<names, rankGroups, teamGroups, leaders, begun, faults, crossed, unguarded>>
  /\ moved' = IF p.op = "move" THEN moved \cup {p.m}
              ELSE IF p.op = "edit" THEN moved \ {p.m} ELSE moved

LEMMA CommitIs ==
  ASSUME RosterInv, NEW r \in Slots, Commit(r)
  PROVE  \E p : Commits(r, p)
<1>1. RequestsInv
  BY DEF RosterInv
<1>2. PICK p : p = req[r]
  OBVIOUS
<1>3. p.pc = "commit"
  BY <1>2 DEF Commit
<1>4. p # NoRequest /\ p.op \in {"edit", "promote", "batch", "finalize", "move"}
  BY <1>1, <1>2, <1>3, KindOfStep DEF Pcs
<1>5. Shape(p) /\ p \in RequestType
  BY <1>1, <1>2, <1>4, RequestFields
<1>6. UNCHANGED <<names, rankGroups, teamGroups, leaders, begun, faults, crossed, unguarded>>
  BY DEF Commit, nextcloud
<1>7. moved' = IF p.op = "move" THEN moved \cup {p.m}
               ELSE IF p.op = "edit" THEN moved \ {p.m} ELSE moved
  BY <1>2 DEF Commit
<1>8. QED
  BY <1>2, <1>3, <1>4, <1>5, <1>6, <1>7 DEF Commits

LEMMA CommitLeaves ==
  ASSUME RosterInv, NEW r \in Slots, NEW p, Commits(r, p)
  PROVE  Leaves(r, p)
<1>1. RequestsInv
  BY DEF RosterInv
<1>2. p = req[r] /\ p # NoRequest /\ Shape(p) /\ p.pc = "commit" /\ Commit(r)
  BY DEF Commits
<1>3. ~Renames(r) /\ ~Migrates(r)
  BY <1>2 DEF Renames, Migrates, Drops
<1>4. CASE p.op = "batch"
  <2>1. At(r, "rank") /\ "rank" \in Pcs
    BY <1>2, <1>4 DEF Commit, Pcs
  <2>2. PICK q \in RequestType :
           /\ req' = [req EXCEPT ![r] = q] /\ req'[r] = q /\ q.pc = "rank" /\ q # NoRequest
           /\ q.op = req[r].op /\ q.m = req[r].m /\ q.old = req[r].old /\ q.new = req[r].new
           /\ q.log = req[r].log /\ q.staged = req[r].staged /\ q.todo = req[r].todo
           /\ q.done = req[r].done /\ q.from = req[r].from /\ q.to = req[r].to
           /\ WriteShape(q) /\ HasRead(r)' = HasRead(r)
    BY <1>1, <1>2, <2>1, AtIs
  <2>3. PromoteShape(p) /\ p.todo = {} /\ p.done = {}
    BY <1>2, <1>4 DEF Shape
  <2>4. PromoteShape(q)
    BY <1>2, <2>2, <2>3 DEF PromoteShape
  <2>5. q \in Requests
    BY <1>2, <1>4, <2>2, <2>3, <2>4 DEF Requests, Shape
  <2>6. Others(r) /\ RequestsInv'
    BY <1>1, <2>2, <2>5, GoesOn
  <2>7. ~Saving(r)' /\ ~Migrates(r)' /\ ~Drops(r)' /\ Committed(r)'
    BY <1>2, <1>4, <2>2 DEF Saving, Migrates, Drops, Committed
  <2>8. ~Renames(r)'
    BY <2>7 DEF Renames
  <2>9. QED
    BY <1>2, <1>3, <1>4, <2>2, <2>3, <2>6, <2>7, <2>8 DEF Leaves
<1>5. CASE p.op # "batch"
  <2>1. req' = [req EXCEPT ![r] = NoRequest]
    BY <1>2, <1>5 DEF Commit, End
  <2>2. req'[r] = NoRequest /\ Others(r) /\ RequestsInv'
    BY <1>1, <2>1, GoesOn
  <2>3. HasRead(r)' = {}
    BY <2>2 DEF HasRead
  <2>4. ~Saving(r)' /\ ~Migrates(r)' /\ ~Drops(r)'
    BY <2>2 DEF Saving, Migrates, Drops, NoRequest
  <2>5. ~Renames(r)'
    BY <2>4 DEF Renames
  <2>6. QED
    BY <1>3, <1>5, <2>2, <2>3, <2>4, <2>5 DEF Leaves
<1>6. QED
  BY <1>4, <1>5

LEMMA CommitWrites ==
  ASSUME RosterInv, NEW r \in Slots, NEW p, Commits(r, p)
  PROVE  Writing(r, p) /\ row' \in [Members -> RowType] /\ ranks' \in [Members -> Seq(Ranks \X Ranks)]
<1>1. RequestsInv /\ TypeOK /\ TablesInv /\ CopyInv /\ AloneInv
  BY DEF RosterInv
<1>2. /\ p = req[r] /\ p # NoRequest /\ WriteShape(p) /\ p.pc = "commit"
      /\ row' = Written(r) /\ ranks' = [m \in Members |-> ranks[m] \o p.log[m]]
  BY DEF Commits, Commit, Shape
<1>3. /\ p.old \in [Members -> RowType \cup {NoRow}] /\ p.new \in [Members -> RowType \cup {NoRow}]
      /\ p.log \in [Members -> Seq(Ranks \X Ranks)]
  BY <1>1, <1>2, RequestFields
<1>4. ASSUME NEW m \in Members PROVE row'[m] = IF p.new[m] # NoRow THEN Merge(row[m], p.old[m], p.new[m]) ELSE row[m]
  BY <1>2 DEF Written, Changed
<1>5. ASSUME NEW m \in Members, p.new[m] # NoRow
      PROVE  /\ p.old[m] \in RowType /\ p.new[m] \in RowType /\ row'[m] \in RowType
             /\ row[m] = p.old[m] => row'[m] = p.new[m]
  <2>1. p.old[m] \in RowType /\ p.new[m] \in RowType /\ row[m] \in RowType
    BY <1>1, <1>2, <1>3, <1>5 DEF WriteShape, TypeOK
  <2>2. row'[m] = Merge(row[m], p.old[m], p.new[m])
    BY <1>4, <1>5
  <2>3. QED
    BY <2>1, <2>2, MergeIs
<1>6. ASSUME NEW m \in Members, p.new[m] # NoRow, m \notin crossed
      PROVE  row[m] = p.old[m] /\ \A s \in Slots : s # r => m \notin HasRead(s) /\ ~Writes(s, m)
  <2>1. p.old[m] # NoRow
    BY <1>2, <1>6 DEF WriteShape
  <2>2. row[m] = p.old[m]
    BY <1>1, <1>2, <1>6, <2>1 DEF CopyInv, CopyFits, Committed
  <2>3. m \in HasRead(r)
    BY <1>1, <1>2, <1>6, WritersRead
  <2>4. QED
    BY <1>1, <1>6, <2>2, <2>3, OnlyReader
<1>7. ASSUME NEW m \in Members PROVE ranks'[m] \in Seq(Ranks \X Ranks) /\ ranks'[m] = ranks[m] \o p.log[m]
  <2>1. ranks[m] \in Seq(Ranks \X Ranks) /\ p.log[m] \in Seq(Ranks \X Ranks)
    BY <1>1, <1>3 DEF TablesInv
  <2>2. ranks'[m] = ranks[m] \o p.log[m]
    BY <1>2
  <2>3. QED
    BY <2>1, <2>2, ConcatProperties
<1>8. ASSUME NEW m \in Members, p.new[m] = NoRow PROVE row'[m] = row[m] /\ ranks'[m] = ranks[m]
  <2>1. p.log[m] = << >> /\ row'[m] = row[m]
    BY <1>2, <1>4, <1>8 DEF WriteShape
  <2>2. ranks[m] \in Seq(Ranks \X Ranks)
    BY <1>1 DEF TablesInv
  <2>3. ranks[m] \o << >> = ranks[m]
    BY <2>2, ConcatEmptySeq
  <2>4. QED
    BY <1>7, <2>1, <2>3
<1>9. row' \in [Members -> RowType]
  <2>1. row' = [m \in Members |-> row'[m]]
    BY <1>2 DEF Written
  <2>2. \A m \in Members : row'[m] \in RowType
    BY <1>1, <1>5, <1>8 DEF TypeOK
  <2>3. QED
    BY <2>1, <2>2
<1>10. ranks' \in [Members -> Seq(Ranks \X Ranks)]
  <2>1. ranks' = [m \in Members |-> ranks'[m]]
    BY <1>2
  <2>2. QED
    BY <1>7, <2>1
<1>11. Writing(r, p)
  BY <1>5, <1>6, <1>7, <1>8 DEF Writing
<1>12. QED
  BY <1>9, <1>10, <1>11

\* Records, copies, chains and stages after a commit.
LEMMA CommitTables ==
  ASSUME RosterInv, NEW r \in Slots, NEW p, Commits(r, p)
  PROVE  TypeOK' /\ TablesInv' /\ AloneInv' /\ CopyInv'
<1>1. RequestsInv /\ TypeOK /\ TablesInv /\ CopyInv /\ AloneInv
  BY DEF RosterInv
<1>2. Leaves(r, p) /\ Writing(r, p) /\ row' \in [Members -> RowType]
      /\ ranks' \in [Members -> Seq(Ranks \X Ranks)]
  BY CommitLeaves, CommitWrites
<1>3. /\ stages' = [s \in Stages |-> IF s \in p.done THEN [stages[s] EXCEPT !.status = "finalized"]
                                     ELSE stages[s]]
      /\ executed' = [s \in Stages |-> IF s \in p.done THEN executed[s] + 1 ELSE executed[s]]
      /\ UNCHANGED <<names, rankGroups, teamGroups, leaders, begun, faults, crossed, unguarded>>
      /\ p = req[r] /\ p # NoRequest /\ p.pc = "commit"
  BY DEF Commits, Commit
<1>4. StageFits(r)
  BY DEF RosterInv, StageInv
<1>5. stages' \in [Stages -> StageType \cup {NoStage}]
  <2>1. ASSUME NEW s \in Stages, s \in p.done PROVE [stages[s] EXCEPT !.status = "finalized"] \in StageType
    <3>1. stages[s] \in StageType
      BY <1>1, <1>3, <1>4, <2>1 DEF StageFits, TablesInv
    <3>2. QED
      BY <3>1 DEF StageType
  <2>2. QED
    BY <1>1, <1>3, <2>1 DEF TablesInv
<1>6. TypeOK'
  BY <1>1, <1>2, <1>3, <1>5 DEF TypeOK
<1>7. TablesInv'
  BY <1>1, <1>2, <1>3, <1>5 DEF TablesInv
<1>8. AloneInv'
  BY <1>1, <1>2, <1>3, AloneFrame DEF Leaves
<1>9. CopyInv'
  <2>1. CopyFits(r)'
    <3>1. CASE p.op # "batch"
      BY <1>2, <3>1 DEF CopyFits, Leaves
    <3>2. CASE p.op = "batch"
      <4>1. PromoteShape(p)
        BY <3>2 DEF Commits, Shape
      <4>2. ASSUME NEW x \in Members, x \notin crossed, p.old[x] # NoRow PROVE row'[x] = p.new[x]
        <5>1. p.new[x] # NoRow
          BY <4>1, <4>2 DEF PromoteShape
        <5>2. QED
          BY <1>2, <4>2, <5>1 DEF Writing
      <4>3. QED
        BY <1>2, <1>3, <3>2, <4>2 DEF CopyFits, Leaves
    <3>3. QED
      BY <3>1, <3>2
  <2>2. Others(r)
    BY <1>2 DEF Leaves
  <2>3. \A m \in Members : m \notin crossed' =>
           row'[m] = row[m] \/ \A s \in Slots : s # r => m \notin HasRead(s)
    BY <1>2, <1>3 DEF Writing
  <2>4. QED
    BY <1>1, <1>3, <2>1, <2>2, <2>3, CopyFrame
<1>10. QED
  BY <1>6, <1>7, <1>8, <1>9

LEMMA CommitChain ==
  ASSUME RosterInv, NEW r \in Slots, NEW p, Commits(r, p)
  PROVE  ChainInv'
<1>1. TypeOK /\ TablesInv /\ ChainInv /\ RequestsInv
  BY DEF RosterInv
<1>2. Writing(r, p) /\ crossed' = crossed /\ WriteShape(p) /\ p = req[r] /\ p # NoRequest
  BY CommitWrites DEF Commits, Shape
<1>3. ASSUME NEW m \in Members, m \notin crossed
      PROVE  Explains(ranks'[m], Start[m].rank, row'[m].rank)
  <2>1. Explains(ranks[m], Start[m].rank, row[m].rank)
    BY <1>1, <1>3 DEF ChainInv
  <2>2. CASE p.new[m] = NoRow
    BY <1>2, <2>1, <2>2 DEF Writing
  <2>3. CASE p.new[m] # NoRow
    <3>1. /\ p.old[m] \in RowType /\ p.new[m] \in RowType /\ row[m] = p.old[m] /\ row'[m] = p.new[m]
          /\ ranks'[m] = ranks[m] \o p.log[m]
      BY <1>2, <1>3, <2>3 DEF Writing
    <3>2. Explains(p.log[m], p.old[m].rank, p.new[m].rank)
      BY <1>2, <2>3 DEF WriteShape
    <3>3. p.old[m].rank \in Ranks /\ p.new[m].rank \in Ranks /\ Start[m].rank \in Ranks
      BY <3>1, RowFields, StartAssumption
    <3>4. ranks[m] \in Seq(Ranks \X Ranks) /\ p.log[m] \in Seq(Ranks \X Ranks)
      BY <1>1, <1>2, RequestFields DEF TablesInv
    <3>5. Explains(ranks[m], Start[m].rank, p.old[m].rank)
      BY <2>1, <3>1
    <3>6. Explains(ranks[m] \o p.log[m], Start[m].rank, p.new[m].rank)
      BY <3>2, <3>3, <3>4, <3>5, LogsJoin
    <3>7. QED
      BY <3>1, <3>6
  <2>4. QED
    BY <2>2, <2>3
<1>4. QED
  BY <1>2, <1>3 DEF ChainInv

LEMMA CommitStages ==
  ASSUME RosterInv, NEW r \in Slots, NEW p, Commits(r, p)
  PROVE  StageInv'
<1>1. RequestsInv /\ TablesInv /\ AloneInv
  BY DEF RosterInv
<1>2. /\ stages' = [s \in Stages |-> IF s \in p.done THEN [stages[s] EXCEPT !.status = "finalized"]
                                     ELSE stages[s]]
      /\ executed' = [s \in Stages |-> IF s \in p.done THEN executed[s] + 1 ELSE executed[s]]
      /\ crossed' = crossed /\ p = req[r] /\ p # NoRequest /\ p.pc = "commit"
  BY DEF Commits, Commit
<1>3. Leaves(r, p)
  BY CommitLeaves
<1>4. /\ \A s \in Stages : stages[s] = NoStage => executed[s] = 0
      /\ \A s \in Stages : stages[s] # NoStage /\ executed[s] # 0 /\ stages[s].member \notin crossed
           => stages[s].status = "finalized"
      /\ \A s \in Slots : StageFits(s)
  BY DEF RosterInv, StageInv
<1>5. ASSUME NEW i \in Stages
      PROVE  /\ i \in p.done => /\ stages[i] # NoStage /\ stages'[i] # NoStage
                                /\ stages'[i].member = stages[i].member /\ stages[i].member \in HasRead(r)
                                /\ stages'[i].status = "finalized"
             /\ i \notin p.done => stages'[i] = stages[i] /\ executed'[i] = executed[i]
  <2>1. CASE i \notin p.done
    BY <1>2, <2>1
  <2>2. CASE i \in p.done
    <3>1. stages[i] # NoStage /\ stages[i].member = p.staged[i].member
      BY <1>2, <1>4, <2>2 DEF StageFits
    <3>2. stages[i] \in StageType
      BY <1>1, <3>1 DEF TablesInv
    <3>3. p.staged[i].member \in HasRead(r)
      BY <1>1, <1>2, <2>2, WritersRead
    <3>4. PICK n : n = [stages[i] EXCEPT !.status = "finalized"]
      OBVIOUS
    <3>5. n \in StageType /\ n.member = stages[i].member /\ n.status = "finalized"
      BY <3>2, <3>4 DEF StageType
    <3>6. stages'[i] = n
      BY <1>2, <2>2, <3>4
    <3>7. QED
      BY <2>2, <3>1, <3>3, <3>5, <3>6, StageFields
  <2>3. QED
    BY <2>1, <2>2
<1>6. \A s \in Stages : stages'[s] = NoStage => executed'[s] = 0
  BY <1>4, <1>5
<1>7. \A s \in Stages : stages'[s] # NoStage /\ executed'[s] # 0 /\ stages'[s].member \notin crossed'
           => stages'[s].status = "finalized"
  BY <1>2, <1>4, <1>5
<1>8. ASSUME NEW s \in Slots PROVE StageFits(s)'
  <2>1. CASE s = r
    <3>1. CASE p.op # "batch"
      BY <1>3, <2>1, <3>1 DEF StageFits, Leaves, NoRequest
    <3>2. CASE p.op = "batch"
      BY <1>3, <2>1, <3>2 DEF StageFits, Leaves
    <3>3. QED
      BY <3>1, <3>2
  <2>2. CASE s # r
    <3>1. req'[s] = req[s] /\ StageFits(s)
      BY <1>3, <1>4, <2>2 DEF Leaves, Others
    <3>2. ASSUME NEW i \in Stages, i \in p.done, stages[i].member \in HasRead(s)
          PROVE  stages[i].member \in crossed
      BY <1>1, <1>5, <2>2, <3>2 DEF AloneInv
    <3>3. ASSUME req[s] # NoRequest, NEW i \in req[s].todo \cup req[s].done
          PROVE  /\ stages'[i] # NoStage /\ stages'[i].member = req[s].staged[i].member
                 /\ stages'[i].member \notin crossed => stages'[i].status = "staged"
      <4>1. i \in Stages
        BY <1>1, <3>3, RequestFields
      <4>2. /\ stages[i] # NoStage /\ stages[i].member = req[s].staged[i].member
            /\ stages[i].member \notin crossed => stages[i].status = "staged"
        BY <3>1, <3>3 DEF StageFits
      <4>3. req[s].staged[i].member \in HasRead(s)
        BY <1>1, <3>3, WritersRead
      <4>4. QED
        BY <1>5, <3>2, <4>1, <4>2, <4>3
    <3>4. ASSUME req[s].pc = "save", req[s].s # 0
          PROVE  /\ stages'[req[s].s] # NoStage /\ stages'[req[s].s].member = req[s].m
                 /\ req[s].m \notin crossed => stages'[req[s].s].status = "staged"
      <4>1. req[s] # NoRequest /\ req[s].op \in {"stage", "remove", "restage"}
        BY <1>1, <3>4, KindOfStep DEF Pcs
      <4>2. StageShape(req[s]) /\ req[s].s \in Stages
        BY <1>1, <3>4, <4>1, RequestFields DEF Shape
      <4>3. req[s].m \in HasRead(s)
        BY <1>1, <4>1, <4>2, WritersRead DEF StageShape
      <4>4. /\ stages[req[s].s] # NoStage /\ stages[req[s].s].member = req[s].m
            /\ req[s].m \notin crossed => stages[req[s].s].status = "staged"
        BY <3>1, <3>4 DEF StageFits
      <4>5. QED
        BY <1>5, <3>2, <4>2, <4>3, <4>4
    <3>5. QED
      BY <1>2, <3>1, <3>3, <3>4 DEF StageFits
  <2>3. QED
    BY <2>1, <2>2
<1>9. QED
  BY <1>6, <1>7, <1>8 DEF StageInv

LEMMA CommitHolds ==
  ASSUME RosterInv, NEW r \in Slots, NEW p, Commits(r, p)
  PROVE  HoldsAreKept'
<1>1. breached' = breached \cup Breaches(r) /\ p = req[r] /\ Shape(p) /\ p # NoRequest
  BY DEF Commits, Commit
<1>2. "desk" \notin breached /\ Writing(r, p)
  BY CommitWrites DEF RosterInv, HoldsAreKept
<1>3. ASSUME NEW x \in Members, p.new[x] # NoRow, x \notin crossed,
             p.op \in {"promote", "batch", "finalize"}, p.new[x].rank > p.old[x].rank, row[x].hold
      PROVE  \E s \in p.done : p.staged[s].member = x /\ ~p.staged[s].up
  <2>1. row[x] = p.old[x]
    BY <1>2, <1>3 DEF Writing
  <2>2. CASE p.op \in {"promote", "batch"}
    BY <1>1, <1>3, <2>1, <2>2 DEF Shape, PromoteShape
  <2>3. CASE p.op = "finalize"
    BY <1>1, <1>3, <2>1, <2>3 DEF Shape, FinalizeShape
  <2>4. QED
    BY <1>3, <2>2, <2>3
<1>4. "desk" \notin Breaches(r)
  BY <1>1, <1>3 DEF Breaches, Changed
<1>5. QED
  BY <1>1, <1>2, <1>4 DEF HoldsAreKept

LEMMA CommitLeader ==
  ASSUME RosterInv, NEW r \in Slots, NEW p, Commits(r, p)
  PROVE  OneLeader'
<1>1. /\ p = req[r] /\ p # NoRequest /\ Shape(p) /\ p.pc = "commit" /\ crossed' = crossed
      /\ p.op \in {"edit", "promote", "batch", "finalize", "move"}
      /\ unguarded' = unguarded
      /\ moved' = IF p.op = "move" THEN moved \cup {p.m}
                  ELSE IF p.op = "edit" THEN moved \ {p.m} ELSE moved
  BY DEF Commits
<1>2. Writing(r, p) /\ OneLeader /\ TitleFits(r)
  BY CommitWrites DEF RosterInv, TitleInv
<1>3. ASSUME NEW x \in Members, x \notin crossed \cup moved' \cup unguarded, row'[x].title = "TL",
             ~(p.op = "edit" /\ x = p.m)
      PROVE  /\ x \notin crossed \cup moved \cup unguarded
             /\ row'[x].team = row[x].team /\ row[x].title = "TL"
             /\ row[x].status = "separated" => row'[x].status = "separated"
             /\ p.op = "edit" => p.new[x] = NoRow
  <2>1. CASE p.new[x] = NoRow
    BY <1>1, <1>2, <1>3, <2>1 DEF Writing
  <2>2. CASE p.new[x] # NoRow
    <3>1. p.old[x] \in RowType /\ p.new[x] \in RowType /\ row[x] = p.old[x] /\ row'[x] = p.new[x]
      BY <1>2, <1>3, <2>2 DEF Writing
    <3>2. p.op # "move"
      BY <1>1, <1>3, <2>2 DEF Shape, MoveShape
    <3>3. p.op # "edit"
      <4>1. SUFFICES ASSUME p.op = "edit" PROVE FALSE
        OBVIOUS
      <4>2. p.new[x] = [p.old[x] EXCEPT !.title = "none"]
        BY <1>1, <1>3, <2>2, <4>1 DEF Shape, EditShape
      <4>3. p.new[x].title = "none"
        BY <3>1, <4>2 DEF RowType
      <4>4. QED
        BY <1>3, <3>1, <4>3
    <3>4. Same(p.old[x], p.new[x])
      BY <1>1, <2>2, <3>2, <3>3 DEF Shape, WriteShape
    <3>5. moved' = moved
      BY <1>1, <3>2, <3>3
    <3>6. QED
      BY <1>3, <3>1, <3>3, <3>4, <3>5 DEF Same
  <2>3. QED
    BY <2>1, <2>2
<1>4. ASSUME p.op = "edit", p.m \notin crossed \cup unguarded, row'[p.m].title = "TL",
             NEW o \in Members, o # p.m, o \notin crossed \cup moved' \cup unguarded,
             row'[o].team = row'[p.m].team, row'[o].title = "TL"
      PROVE  row'[o].status = "separated"
  <2>1. p.m \in Members /\ p.new[p.m] # NoRow
    BY <1>1, <1>4 DEF Shape, EditShape
  <2>2. row'[p.m] = p.new[p.m]
    BY <1>2, <1>4, <2>1 DEF Writing
  <2>3. Crowning(r)
    BY <1>1, <1>4, <2>2 DEF Crowning, Saving
  <2>4. /\ o \notin crossed \cup moved \cup unguarded
        /\ row'[o].team = row[o].team /\ row[o].title = "TL"
        /\ row[o].status = "separated" => row'[o].status = "separated"
        /\ p.new[o] = NoRow
    BY <1>3, <1>4
  <2>5. row[o].status = "separated" \/ p.new[o] # NoRow
    BY <1>1, <1>2, <1>4, <2>2, <2>3, <2>4 DEF TitleFits
  <2>6. QED
    BY <2>4, <2>5
<1>5. ASSUME NEW m \in Members, NEW o \in Members,
             m \notin crossed' \cup moved' \cup unguarded',
             o \notin crossed' \cup moved' \cup unguarded',
             m # o, row'[m].team = row'[o].team, row'[m].title = "TL", row'[o].title = "TL"
      PROVE  row'[m].status = "separated" \/ row'[o].status = "separated"
  <2>1. m \notin crossed \cup moved' \cup unguarded /\ o \notin crossed \cup moved' \cup unguarded
    BY <1>1, <1>5
  <2>2. CASE p.op = "edit" /\ m = p.m
    BY <1>4, <1>5, <2>1, <2>2
  <2>3. CASE p.op = "edit" /\ o = p.m
    BY <1>4, <1>5, <2>1, <2>3
  <2>4. CASE ~(p.op = "edit" /\ m = p.m) /\ ~(p.op = "edit" /\ o = p.m)
    <3>1. /\ m \notin crossed \cup moved \cup unguarded
          /\ row'[m].team = row[m].team /\ row[m].title = "TL"
          /\ row[m].status = "separated" => row'[m].status = "separated"
      BY <1>3, <1>5, <2>1, <2>4
    <3>2. /\ o \notin crossed \cup moved \cup unguarded
          /\ row'[o].team = row[o].team /\ row[o].title = "TL"
          /\ row[o].status = "separated" => row'[o].status = "separated"
      BY <1>3, <1>5, <2>1, <2>4
    <3>3. QED
      BY <1>2, <1>5, <3>1, <3>2 DEF OneLeader
  <2>5. QED
    BY <2>2, <2>3, <2>4
<1>6. QED
  BY <1>5 DEF OneLeader

LEMMA CommitTitles ==
  ASSUME RosterInv, NEW r \in Slots, NEW p, Commits(r, p)
  PROVE  TitleInv'
<1>1. /\ p = req[r] /\ p # NoRequest /\ Shape(p) /\ p.pc = "commit" /\ crossed' = crossed
      /\ p.op \in {"edit", "promote", "batch", "finalize", "move"}
      /\ unguarded' = unguarded
      /\ moved' = IF p.op = "move" THEN moved \cup {p.m}
                  ELSE IF p.op = "edit" THEN moved \ {p.m} ELSE moved
  BY DEF Commits
<1>2. Writing(r, p) /\ Leaves(r, p)
  BY CommitWrites, CommitLeaves
<1>3. /\ \A s \in Slots : TitleFits(s)
      /\ \A s, i \in Slots : s # i /\ Crowning(s) /\ Crowning(i)
           => req[s].m \in unguarded \/ req[i].m \in unguarded
  BY DEF RosterInv, TitleInv
<1>4. ~Crowning(r)' /\ \A s \in Slots : s # r => req'[s] = req[s] /\ (Crowning(s)' <=> Crowning(s))
  BY <1>2 DEF Leaves, Others, Crowning, Saving
<1>5. ASSUME NEW s \in Slots, s # r, Crowning(s), req[s].m \notin crossed \cup unguarded,
             NEW o \in Members, o \notin crossed \cup moved' \cup unguarded \cup {req[s].m},
             row'[o].team = req[s].new[req[s].m].team, row'[o].title = "TL"
      PROVE  row'[o].status = "separated" \/ req[s].new[o] # NoRow
  <2>1. ASSUME o \notin moved, row[o].team = row'[o].team, row[o].title = "TL",
               row[o].status = "separated" => row'[o].status = "separated"
        PROVE  row'[o].status = "separated" \/ req[s].new[o] # NoRow
    BY <1>3, <1>5, <2>1 DEF TitleFits
  <2>2. CASE p.new[o] = NoRow
    <3>1. row'[o] = row[o]
      BY <1>2, <2>2 DEF Writing
    <3>2. p.op = "edit" => o # p.m
      BY <1>1, <2>2 DEF Shape, EditShape
    <3>3. o \notin moved
      BY <1>1, <1>5, <3>2
    <3>4. QED
      BY <1>5, <2>1, <3>1, <3>3
  <2>3. CASE p.new[o] # NoRow
    <3>1. p.old[o] \in RowType /\ p.new[o] \in RowType /\ row[o] = p.old[o] /\ row'[o] = p.new[o]
      BY <1>2, <1>5, <2>3 DEF Writing
    <3>2. p.op # "move"
      BY <1>1, <1>5, <2>3 DEF Shape, MoveShape
    <3>3. p.op # "edit"
      <4>1. SUFFICES ASSUME p.op = "edit" PROVE FALSE
        OBVIOUS
      <4>2. CASE o = p.m
        <5>1. Crowning(r)
          BY <1>1, <1>5, <3>1, <4>1, <4>2 DEF Crowning, Saving
        <5>2. QED
          BY <1>1, <1>3, <1>5, <4>2, <5>1
      <4>3. CASE o # p.m
        <5>1. p.new[o] = [p.old[o] EXCEPT !.title = "none"]
          BY <1>1, <2>3, <4>1, <4>3 DEF Shape, EditShape
        <5>2. p.new[o].title = "none"
          BY <3>1, <5>1 DEF RowType
        <5>3. QED
          BY <1>5, <3>1, <5>2
      <4>4. QED
        BY <4>2, <4>3
    <3>4. Same(p.old[o], p.new[o])
      BY <1>1, <2>3, <3>2, <3>3 DEF Shape, WriteShape
    <3>5. moved' = moved
      BY <1>1, <3>2, <3>3
    <3>6. QED
      BY <1>5, <2>1, <3>1, <3>4, <3>5 DEF Same
  <2>4. QED
    BY <2>2, <2>3
<1>6. ASSUME NEW s \in Slots PROVE TitleFits(s)'
  <2>1. CASE s = r
    BY <1>4, <2>1 DEF TitleFits
  <2>2. CASE s # r
    BY <1>1, <1>4, <1>5, <2>2 DEF TitleFits
  <2>3. QED
    BY <2>1, <2>2
<1>7. \A s, i \in Slots : s # i /\ Crowning(s)' /\ Crowning(i)'
        => req'[s].m \in unguarded' \/ req'[i].m \in unguarded'
  BY <1>1, <1>3, <1>4
<1>8. QED
  BY <1>6, <1>7 DEF TitleInv

LEMMA CommitRanks ==
  ASSUME RosterInv, NEW r \in Slots, NEW p, Commits(r, p)
  PROVE  RankGroupInv'
<1>1. /\ p = req[r] /\ p # NoRequest /\ Shape(p) /\ p.pc = "commit" /\ crossed' = crossed
      /\ p.op \in {"edit", "promote", "batch", "finalize", "move"}
      /\ rankGroups' = rankGroups /\ faults' = faults
  BY DEF Commits
<1>2. Writing(r, p) /\ Leaves(r, p) /\ RankGroupInv
  BY CommitWrites, CommitLeaves DEF RosterInv
<1>3. Others(r)
  BY <1>2 DEF Leaves
<1>4. ASSUME faults = 0, NEW m \in Members, m \notin crossed, p.new[m] # NoRow PROVE RankFits(m)'
  <2>1. /\ row[m] = p.old[m] /\ row'[m] = p.new[m]
        /\ \A s \in Slots : s # r => ~Writes(s, m)
    BY <1>2, <1>4 DEF Writing
  <2>2. \A s \in Slots : s # r => ~Writes(s, m)'
    BY <1>3, <2>1 DEF Others, Writes
  <2>3. Writes(r, m) /\ ~Syncing(r, m)
    BY <1>1, <1>4 DEF Writes, Syncing
  <2>4. rankGroups[m] = {IF p.op = "batch" THEN p.old[m].rank ELSE p.new[m].rank}
    BY <1>1, <1>2, <1>4, <2>3 DEF RankGroupInv, RankFits
  <2>5. CASE p.op = "batch"
    <3>1. m = p.m
      BY <1>1, <1>4, <2>5 DEF Shape, PromoteShape
    <3>2. Writes(r, m)' /\ Syncing(r, m)'
      BY <1>2, <1>4, <2>5, <3>1 DEF Leaves, Writes, Syncing
    <3>3. QED
      BY <2>2, <3>2 DEF RankFits
  <2>6. CASE p.op # "batch"
    <3>1. ~Writes(r, m)'
      BY <1>2, <2>6 DEF Leaves, Writes
    <3>2. rankGroups'[m] = {row'[m].rank}
      BY <1>1, <2>1, <2>4, <2>6
    <3>3. QED
      BY <2>2, <3>1, <3>2 DEF RankFits
  <2>7. QED
    BY <2>5, <2>6
<1>5. ASSUME NEW m \in Members, p.new[m] = NoRow
      PROVE  /\ rankGroups'[m] = rankGroups[m] /\ row'[m].rank = row[m].rank
             /\ ~Writes(r, m) /\ ~Writes(r, m)'
  <2>1. row'[m] = row[m]
    BY <1>2, <1>5 DEF Writing
  <2>2. ~Writes(r, m)
    BY <1>1, <1>5 DEF Writes
  <2>3. ~Writes(r, m)'
    BY <1>2, <1>5 DEF Leaves, Writes
  <2>4. QED
    BY <1>1, <2>1, <2>2, <2>3
<1>6. QED
  BY <1>1, <1>2, <1>3, <1>4, <1>5, RankFrame

LEMMA CommitTeams ==
  ASSUME RosterInv, NEW r \in Slots, NEW p, Commits(r, p)
  PROVE  TeamGroupInv'
<1>1. /\ p = req[r] /\ p # NoRequest /\ Shape(p) /\ p.pc = "commit" /\ crossed' = crossed
      /\ p.op \in {"edit", "promote", "batch", "finalize", "move"}
      /\ teamGroups' = teamGroups /\ faults' = faults
      /\ moved' = IF p.op = "move" THEN moved \cup {p.m}
                  ELSE IF p.op = "edit" THEN moved \ {p.m} ELSE moved
  BY DEF Commits
<1>2. Writing(r, p) /\ Leaves(r, p)
  BY CommitWrites, CommitLeaves
<1> SUFFICES ASSUME faults = 0 PROVE TeamGroupInv'
  BY <1>1 DEF TeamGroupInv
<1>3. /\ \A s, i \in Slots : s # i /\ Renames(s) /\ Renames(i) => crossed = Members
      /\ \A s \in Slots : Saving(s) /\ req[s].m \notin crossed
           => teamGroups[req[s].m] = {req[s].new[req[s].m].team} /\ \A i \in Slots : ~Renames(i)
      /\ \A x \in Members \ (crossed \cup moved) : TeamFits(x)
  BY DEF RosterInv, TeamGroupInv
<1>4. /\ ~Saving(r)' /\ ~Renames(r) /\ ~Renames(r)'
      /\ \A s \in Slots : s # r => /\ req'[s] = req[s] /\ (Saving(s)' <=> Saving(s))
                                   /\ (Renames(s)' <=> Renames(s)) /\ (Migrates(s)' <=> Migrates(s))
                                   /\ \A x \in Members : Settled(s, x)' <=> Settled(s, x)
  BY <1>2 DEF Leaves, Others, Saving, Renames, Migrates, Drops, Settled
<1>5. \A s, i \in Slots : s # i /\ Renames(s)' /\ Renames(i)' => crossed' = Members
  BY <1>1, <1>3, <1>4
<1>6. \A s \in Slots : Saving(s)' /\ req'[s].m \notin crossed'
        => teamGroups'[req'[s].m] = {req'[s].new[req'[s].m].team} /\ \A i \in Slots : ~Renames(i)'
  BY <1>1, <1>3, <1>4
<1>7. ASSUME NEW x \in Members, x \notin crossed, x \notin moved', \A s \in Slots : Settled(s, x)'
      PROVE  TeamFits(x)'
  <2>1. CASE p.op = "edit" /\ x = p.m
    <3>1. p.new[x] # NoRow /\ Saving(r)
      BY <1>1, <2>1 DEF Shape, EditShape, Saving
    <3>2. row'[x] = p.new[x]
      BY <1>2, <1>7, <3>1 DEF Writing
    <3>3. teamGroups[x] = {p.new[x].team} /\ \A i \in Slots : ~Renames(i)
      BY <1>1, <1>3, <1>7, <2>1, <3>1
    <3>4. \A i \in Slots : ~Renames(i)'
      BY <1>4, <3>3
    <3>5. QED
      BY <1>1, <3>2, <3>3, <3>4 DEF TeamFits
  <2>2. CASE ~(p.op = "edit" /\ x = p.m)
    <3>1. x \notin moved /\ ~(p.op = "move" /\ x = p.m)
      BY <1>1, <1>7, <2>2
    <3>2. Settled(r, x)
      BY <1>1, <2>2, <3>1 DEF Settled, Saving
    <3>3. \A s \in Slots : Settled(s, x)
      BY <1>4, <1>7, <3>2
    <3>4. row'[x].team = row[x].team
      <4>1. CASE p.new[x] = NoRow
        BY <1>2, <4>1 DEF Writing
      <4>2. CASE p.new[x] # NoRow
        <5>1. p.old[x] \in RowType /\ p.new[x] \in RowType /\ row[x] = p.old[x] /\ row'[x] = p.new[x]
          BY <1>2, <1>7, <4>2 DEF Writing
        <5>2. p.op # "move"
          BY <1>1, <3>1, <4>2 DEF Shape, MoveShape
        <5>3. CASE p.op = "edit"
          <6>1. p.new[x] = [p.old[x] EXCEPT !.title = "none"]
            BY <1>1, <2>2, <4>2, <5>3 DEF Shape, EditShape
          <6>2. p.new[x].team = p.old[x].team
            BY <5>1, <6>1 DEF RowType
          <6>3. QED
            BY <5>1, <6>2
        <5>4. CASE p.op # "edit"
          BY <1>1, <4>2, <5>1, <5>2, <5>4 DEF Shape, WriteShape, Same
        <5>5. QED
          BY <5>3, <5>4
      <4>3. QED
        BY <4>1, <4>2
    <3>5. TeamFits(x)
      BY <1>3, <1>7, <3>1
    <3>6. QED
      BY <1>1, <1>4, <3>3, <3>4, <3>5 DEF TeamFits
  <2>3. QED
    BY <2>1, <2>2
<1>8. \A x \in Members : x \notin crossed' /\ x \notin moved' => TeamFits(x)'
  BY <1>1, <1>7 DEF TeamFits
<1>9. QED
  BY <1>5, <1>6, <1>8 DEF TeamGroupInv

LEMMA CommitLeads ==
  ASSUME RosterInv, NEW r \in Slots, NEW p, Commits(r, p)
  PROVE  LeadersInv'
<1>1. /\ p = req[r] /\ p # NoRequest /\ Shape(p) /\ p.pc = "commit" /\ crossed' = crossed
      /\ p.op \in {"edit", "promote", "batch", "finalize", "move"}
      /\ leaders' = leaders /\ faults' = faults
  BY DEF Commits
<1>2. Writing(r, p) /\ Leaves(r, p) /\ RequestsInv /\ TablesInv
  BY CommitWrites, CommitLeaves DEF RosterInv
<1>3. ~Saving(r)' /\ \A s \in Slots : s # r => req'[s] = req[s] /\ (Saving(s)' <=> Saving(s))
  BY <1>2 DEF Leaves, Others, Saving
<1>4. ASSUME faults = 0, NEW x \in Members, x \notin crossed PROVE LeaderFits(x)'
  <2>1. /\ (\A s \in Slots : Saving(s) => req[s].new[x] = NoRow) /\ NeverUp(ranks[x])
             /\ Leads(row[x].rank, row[x].title) => x \in leaders
        /\ \A s \in Slots : Saving(s) /\ req[s].new[x] # NoRow
             /\ Leads(req[s].new[x].rank, req[s].new[x].title) => x \in leaders
    BY <1>4 DEF RosterInv, LeadersInv, LeaderFits
  <2>2. \A s \in Slots : Saving(s)' /\ req'[s].new[x] # NoRow
             /\ Leads(req'[s].new[x].rank, req'[s].new[x].title) => x \in leaders'
    BY <1>1, <1>3, <2>1
  <2>3. ASSUME \A s \in Slots : Saving(s)' => req'[s].new[x] = NoRow, NeverUp(ranks'[x]),
               Leads(row'[x].rank, row'[x].title)
        PROVE  x \in leaders
    <3>1. \A s \in Slots : s # r /\ Saving(s) => req[s].new[x] = NoRow
      BY <1>3, <2>3
    <3>2. CASE p.new[x] = NoRow
      <4>1. row'[x] = row[x] /\ ranks'[x] = ranks[x]
        BY <1>2, <3>2 DEF Writing
      <4>2. \A s \in Slots : Saving(s) => req[s].new[x] = NoRow
        BY <1>1, <3>1, <3>2
      <4>3. QED
        BY <2>1, <2>3, <4>1, <4>2
    <3>3. CASE p.new[x] # NoRow
      <4>1. /\ p.old[x] \in RowType /\ p.new[x] \in RowType /\ row[x] = p.old[x] /\ row'[x] = p.new[x]
            /\ ranks'[x] = ranks[x] \o p.log[x]
        BY <1>2, <1>4, <3>3 DEF Writing
      <4>2. CASE p.op = "edit"
        <5>1. Saving(r)
          BY <1>1, <4>2 DEF Saving
        <5>2. QED
          BY <1>1, <2>1, <2>3, <3>3, <4>1, <5>1
      <4>3. CASE p.op # "edit"
        <5>1. ~Saving(r)
          BY <1>1, <4>3 DEF Saving
        <5>2. \A s \in Slots : Saving(s) => req[s].new[x] = NoRow
          BY <3>1, <5>1
        <5>3. ranks[x] \in Seq(Ranks \X Ranks) /\ p.log[x] \in Seq(Ranks \X Ranks)
          BY <1>1, <1>2, RequestFields DEF TablesInv
        <5>4. p.old[x].rank \in Ranks /\ p.new[x].rank \in Ranks
          BY <4>1, RowFields
        <5>5. NeverUp(ranks[x] \o p.log[x])
          BY <2>3, <4>1
        <5>6. NeverUp(ranks[x]) /\ NeverUp(p.log[x])
          BY <5>3, <5>4, <5>5, LogsJoin
        <5>7. p.new[x].rank <= p.old[x].rank
          BY <1>1, <3>3, <5>6 DEF Shape, WriteShape
        <5>8. p.new[x].title = p.old[x].title
          <6>1. CASE p.op = "move"
            <7>1. p.new[x] = [p.old[x] EXCEPT !.team = p.new[x].team]
              BY <1>1, <3>3, <6>1 DEF Shape, WriteShape
            <7>2. QED
              BY <4>1, <7>1 DEF RowType
          <6>2. CASE p.op # "move"
            BY <1>1, <3>3, <4>3, <6>2 DEF Shape, WriteShape, Same
          <6>3. QED
            BY <6>1, <6>2
        <5>9. Leads(p.new[x].rank, p.new[x].title) => Leads(p.old[x].rank, p.old[x].title)
          <6>1. p.old[x].rank \in Nat /\ p.new[x].rank \in Nat /\ NCO \in Nat
            BY <4>1, RowFields, RanksAssumption
          <6>2. QED
            BY <5>7, <5>8, <6>1 DEF Leads
        <5>10. QED
          BY <2>1, <2>3, <4>1, <5>2, <5>6, <5>9
      <4>4. QED
        BY <4>2, <4>3
    <3>4. QED
      BY <3>2, <3>3
  <2>4. QED
    BY <1>1, <2>2, <2>3 DEF LeaderFits
<1>5. QED
  BY <1>1, <1>4 DEF LeadersInv

LEMMA CommitKept ==
  ASSUME RosterInv, NEW r \in Slots, Commit(r)
  PROVE  RosterInv'
<1>1. PICK p : Commits(r, p)
  BY CommitIs
<1>2. RequestsInv'
  BY <1>1, CommitLeaves DEF Leaves
<1>3. QED
  BY <1>1, <1>2, CommitTables, CommitChain, CommitStages, CommitHolds, CommitLeader, CommitTitles,
     CommitRanks, CommitTeams, CommitLeads DEF RosterInv

-----------------------------------------------------------------------------
(***************************************************************************)
(* The theorems.                                                           *)
(***************************************************************************)
LEMMA InitInv == Init => RosterInv
<1> SUFFICES ASSUME Init PROVE RosterInv
  OBVIOUS
<1>1. /\ row = Start /\ ranks = [m \in Members |-> << >>]
      /\ names = {Start[m].team : m \in Members}
      /\ stages = [s \in Stages |-> NoStage]
      /\ rankGroups = [m \in Members |-> {Start[m].rank}]
      /\ teamGroups = [m \in Members |-> {Start[m].team}]
      /\ leaders = {m \in Members : Leads(Start[m].rank, Start[m].title)}
      /\ req = [r \in Slots |-> NoRequest] /\ begun = 0 /\ faults = 0
      /\ crossed = {} /\ moved = {} /\ unguarded = {} /\ breached = {}
      /\ executed = [s \in Stages |-> 0]
  BY DEF Init
<1>2. \A m \in Members : Start[m] \in RowType /\ Start[m].rank \in Ranks /\ Start[m].team \in Teams
  BY RowFields, StartAssumption
<1>3. TypeOK
  <2>1. << >> \in Seq(Ranks \X Ranks)
    OBVIOUS
  <2>2. \A s \in Stages : stages[s] = NoStage
    BY <1>1
  <2>3. row \in [Members -> RowType] /\ names \subseteq Teams /\ leaders \subseteq Members
        /\ rankGroups \in [Members -> SUBSET Ranks] /\ teamGroups \in [Members -> SUBSET Teams]
    BY <1>1, <1>2, StartAssumption
  <2>4. begun \in 0..MaxRequests /\ faults \in 0..MaxFaults
    BY <1>1, BoundsAssumption
  <2>5. \A m \in Members : ranks[m] \in Seq(Ranks \X Ranks)
    BY <1>1, <2>1
  <2>6. QED
    BY <2>2, <2>3, <2>4, <2>5 DEF TypeOK
<1>4. RequestsInv /\ TablesInv
  BY <1>1 DEF RequestsInv, TablesInv
<1>5. \A r \in Slots : req[r] = NoRequest
  BY <1>1
<1>6. AloneInv /\ CopyInv
  BY <1>5 DEF AloneInv, HasRead, CopyInv, CopyFits
<1>7. ChainInv
  BY <1>1 DEF ChainInv, Explains
<1>8. StageInv
  <2>1. \A r \in Slots : StageFits(r)
    BY <1>5 DEF StageFits, NoRequest
  <2>2. QED
    BY <1>1, <2>1 DEF StageInv
<1>9. HoldsAreKept
  BY <1>1 DEF HoldsAreKept
<1>10. OneLeader
  BY <1>1, StartAssumption DEF OneLeader
<1>11. \A r \in Slots : ~Saving(r) /\ ~Crowning(r) /\ ~Renames(r) /\ \A m \in Members : ~Writes(r, m)
  BY <1>5 DEF Saving, Crowning, Renames, Migrates, Drops, Writes, NoRequest
<1>12. TitleInv
  BY <1>11 DEF TitleInv, TitleFits
<1>13. RankGroupInv
  BY <1>1, <1>11 DEF RankGroupInv, RankFits
<1>14. TeamGroupInv
  BY <1>1, <1>11 DEF TeamGroupInv, TeamFits
<1>15. LeadersInv
  BY <1>1, <1>11 DEF LeadersInv, LeaderFits
<1>16. QED
  BY <1>3, <1>4, <1>6, <1>7, <1>8, <1>9, <1>10, <1>12, <1>13, <1>14, <1>15 DEF RosterInv

LEMMA StutterKept ==
  ASSUME RosterInv, UNCHANGED vars
  PROVE  RosterInv'
<1>1. UNCHANGED <<row, ranks, names, stages, rankGroups, teamGroups, leaders, req, begun, faults,
                  crossed, moved, unguarded, executed, breached>>
  BY DEF vars, nextcloud, history
<1>2. TypeOK' /\ TablesInv' /\ RequestsInv' /\ ChainInv' /\ HoldsAreKept' /\ OneLeader'
  BY <1>1 DEF RosterInv, TypeOK, TablesInv, RequestsInv, ChainInv, HoldsAreKept, OneLeader
<1>3. AloneInv' /\ CopyInv' /\ StageInv'
  BY <1>1 DEF RosterInv, AloneInv, HasRead, CopyInv, CopyFits, Committed, StageInv, StageFits
<1>4. TitleInv'
  BY <1>1 DEF RosterInv, TitleInv, TitleFits, Crowning, Saving
<1>5. RankGroupInv'
  BY <1>1 DEF RosterInv, RankGroupInv, RankFits, Writes, Syncing
<1>6. TeamGroupInv'
  <2>1. \A r \in Slots : /\ Saving(r)' <=> Saving(r)
                         /\ Renames(r)' <=> Renames(r)
                         /\ Migrates(r)' <=> Migrates(r)
                         /\ \A m \in Members : Settled(r, m)' <=> Settled(r, m)
    BY <1>1 DEF Saving, Renames, Migrates, Drops, Settled
  <2>2. \A m \in Members : TeamFits(m) => TeamFits(m)'
    BY <1>1, <2>1 DEF TeamFits
  <2>3. QED
    BY <1>1, <2>1, <2>2 DEF RosterInv, TeamGroupInv
<1>7. LeadersInv'
  BY <1>1 DEF RosterInv, LeadersInv, LeaderFits, Saving
<1>8. QED
  BY <1>2, <1>3, <1>4, <1>5, <1>6, <1>7 DEF RosterInv

LEMMA NextKept ==
  ASSUME RosterInv, [Next]_vars
  PROVE  RosterInv'
<1>1. CASE Begins
  <2>1. ASSUME NEW m \in Members, BeginEdit(m) PROVE RosterInv'
    BY <2>1, EditBegins
  <2>2. ASSUME NEW m \in Members, NEW k \in Ranks, BeginPromote(m, k) \/ BeginBatch(m, k) \/ BeginStage(m, k)
        PROVE  RosterInv'
    BY <2>2, PromotionBegins, StageBegins
  <2>3. ASSUME NEW s \in Stages, BeginRemove(s) PROVE RosterInv'
    BY <2>3, RemoveBegins
  <2>4. ASSUME NEW s \in Stages, NEW k \in Ranks, BeginRestage(s, k) PROVE RosterInv'
    BY <2>4, RestageBegins
  <2>5. ASSUME NEW m \in Members, NEW t \in Teams, BeginMove(m, t) PROVE RosterInv'
    BY <2>5, MoveBegins
  <2>6. ASSUME NEW t \in Teams, NEW u \in Teams, BeginRename(t, u) PROVE RosterInv'
    BY <2>6, RenameBegins
  <2>7. QED
    BY <1>1, <2>1, <2>2, <2>3, <2>4, <2>5, <2>6, FinalizeBegins DEF Begins
<1>2. ASSUME NEW r \in Slots, Continues(r) PROVE RosterInv'
  <2>1. ASSUME req[r].pc = "page", NEW form \in Forms(req[r].page), PostEdit(r, form) PROVE RosterInv'
    BY <2>1, EditPosted
  <2>2. ASSUME NEW lost \in BOOLEAN, Cascade(r, lost) \/ SyncRank(r, lost) \/ Migrate(r, lost)
        PROVE  RosterInv'
    BY <2>2, CascadeKept, SyncRankKept, MigrateKept
  <2>3. ASSUME NEW s \in Stages, ExecuteStage(r, s) PROVE RosterInv'
    BY <2>3, ExecuteStageKept
  <2>4. ASSUME SaveStage(r) \/ AllExecuted(r) \/ Commit(r) \/ SyncMove(r) \/ Drop(r) PROVE RosterInv'
    BY <2>4, SaveStageKept, AllExecutedKept, CommitKept, SyncMoveKept, DropKept
  <2>5. QED
    BY <1>2, <2>1, <2>2, <2>3, <2>4 DEF Continues
<1>3. QED
  BY <1>1, <1>2, CrashKept, StutterKept DEF Next

\* What every request of the profile editor, the promotions desk, the address form and
\* the renaming of teams (member_edit.py, promotions.py, contact_edit.py, team_manage.py)
\* holds agrees with the records, however the requests interleave, fail or are cut off.
THEOREM RosterInvCorrect == Spec => []RosterInv
<1>1. Init => RosterInv
  BY InitInv
<1>2. RosterInv /\ [Next]_vars => RosterInv'
  BY NextKept
<1>3. QED
  BY <1>1, <1>2, PTL DEF Spec

Chain(l, s) == << <<s, s>> >> \o l
LEMMA ChainIs ==
  ASSUME NEW l \in Seq(Ranks \X Ranks), NEW s \in Ranks, NEW k \in Ranks, Explains(l, s, k)
  PROVE  /\ \A i \in 1..Len(l) : Chain(l, s)[i + 1][1] = Chain(l, s)[i][2]
         /\ Chain(l, s)[Len(Chain(l, s))][2] = k
<1>1. PICK chain : chain = << <<s, s>> >> \o l
  OBVIOUS
<1>2. << <<s, s>> >> \in Seq(Ranks \X Ranks) /\ Len(<< <<s, s>> >>) = 1 /\ << <<s, s>> >>[1] = <<s, s>>
  BY <1>1
<1>3. Len(chain) = 1 + Len(l) /\ Len(l) \in Nat
      /\ \A i \in 1..(1 + Len(l)) : chain[i] = IF i <= 1 THEN << <<s, s>> >>[i] ELSE l[i - 1]
  BY <1>1, <1>2, ConcatProperties
<1>4. chain[1][2] = s /\ \A i \in 1..Len(l) : chain[i + 1] = l[i]
  <2>1. chain[1] = <<s, s>>
    BY <1>2, <1>3
  <2>2. ASSUME NEW i \in 1..Len(l) PROVE chain[i + 1] = l[i]
    <3>1. i + 1 \in 1..(1 + Len(l)) /\ ~(i + 1 <= 1) /\ (i + 1) - 1 = i
      BY <1>3
    <3>2. QED
      BY <1>3, <3>1
  <2>3. QED
    BY <2>1, <2>2
<1>5. ASSUME l = << >> PROVE (\A i \in 1..Len(l) : chain[i + 1][1] = chain[i][2]) /\ chain[Len(chain)][2] = k
  <2>1. Len(l) = 0 /\ s = k
    BY <1>1, <1>5 DEF Explains
  <2>2. QED
    BY <1>3, <1>4, <2>1
<1>6. ASSUME l # << >> PROVE (\A i \in 1..Len(l) : chain[i + 1][1] = chain[i][2]) /\ chain[Len(chain)][2] = k
  <2>1. l[1][1] = s /\ l[Len(l)][2] = k /\ \A i \in 1..(Len(l) - 1) : l[i + 1][1] = l[i][2]
    BY <1>1, <1>6 DEF Explains
  <2>2. Len(l) >= 1
    BY <1>1, <1>6, EmptySeq
  <2>3. chain[Len(chain)][2] = k
    <3>1. Len(l) \in 1..Len(l) /\ Len(chain) = Len(l) + 1
      BY <1>3, <2>2
    <3>2. QED
      BY <1>4, <2>1, <3>1
  <2>4. ASSUME NEW i \in 1..Len(l) PROVE chain[i + 1][1] = chain[i][2]
    <3>1. CASE i = 1
      BY <1>4, <2>1, <3>1
    <3>2. CASE i # 1
      <4>1. i - 1 \in 1..(Len(l) - 1) /\ i - 1 \in 1..Len(l) /\ (i - 1) + 1 = i
        BY <1>3, <3>2
      <4>2. l[i][1] = l[i - 1][2] /\ chain[i] = l[i - 1]
        BY <1>4, <2>1, <4>1
      <4>3. QED
        BY <1>4, <4>2
    <3>3. QED
      BY <3>1, <3>2
  <2>5. QED
    BY <2>3, <2>4
<1>7. Chain(l, s) = chain
  BY <1>1 DEF Chain
<1>8. QED
  BY <1>5, <1>6, <1>7

LEMMA ChainsExplain == ASSUME RosterInv PROVE RanksExplained
<1>1. TypeOK /\ TablesInv /\ ChainInv
  BY DEF RosterInv
<1>2. ASSUME NEW m \in Members, m \notin crossed
      PROVE  /\ \A i \in 1..Len(ranks[m]) :
                  Chain(ranks[m], Start[m].rank)[i + 1][1] = Chain(ranks[m], Start[m].rank)[i][2]
             /\ Chain(ranks[m], Start[m].rank)[Len(Chain(ranks[m], Start[m].rank))][2] = row[m].rank
  <2>1. Explains(ranks[m], Start[m].rank, row[m].rank) /\ ranks[m] \in Seq(Ranks \X Ranks)
    BY <1>1, <1>2 DEF ChainInv, TablesInv
  <2>2. Start[m].rank \in Ranks /\ row[m].rank \in Ranks
    BY <1>1, <1>2, RowFields, StartAssumption DEF TypeOK
  <2>3. QED
    BY <2>1, <2>2, ChainIs
<1>3. QED
  BY <1>2 DEF RanksExplained, Chain

\* The rank history explains the rank, the desk promotes nobody on hold, and a team has
\* one leader, whichever of the pages of member_edit.py, promotions.py, contact_edit.py
\* and team_manage.py changed them, unless requests overlapped.
THEOREM MembersAreInOrderCorrect == Spec => []MembersAreInOrder
<1>1. RosterInv => MembersAreInOrder
  BY ChainsExplain DEF RosterInv, MembersAreInOrder
<1>2. QED
  BY <1>1, RosterInvCorrect, PTL

LEMMA QuietGroups == ASSUME RosterInv PROVE GroupsFollow
<1>1. RankGroupInv /\ TeamGroupInv /\ LeadersInv
  BY DEF RosterInv
<1>2. ASSUME Quiet, faults = 0, NEW m \in Members, m \notin crossed
      PROVE  /\ rankGroups[m] = {row[m].rank}
             /\ m \notin moved => teamGroups[m] = {row[m].team}
             /\ NeverUp(ranks[m]) /\ Leads(row[m].rank, row[m].title) => m \in leaders
  <2>1. \A r \in Slots : ~Saving(r) /\ ~Renames(r) /\ ~Writes(r, m) /\ Settled(r, m)
    BY <1>2 DEF Quiet, Saving, Renames, Migrates, Drops, Writes, Settled, NoRequest
  <2>2. rankGroups[m] = {row[m].rank}
    BY <1>1, <1>2, <2>1 DEF RankGroupInv, RankFits
  <2>3. m \notin moved => teamGroups[m] = {row[m].team}
    BY <1>1, <1>2, <2>1 DEF TeamGroupInv, TeamFits
  <2>4. NeverUp(ranks[m]) /\ Leads(row[m].rank, row[m].title) => m \in leaders
    BY <1>1, <1>2, <2>1 DEF LeadersInv, LeaderFits
  <2>5. QED
    BY <2>2, <2>3, <2>4
<1>3. QED
  BY <1>2 DEF GroupsFollow, RankGroupFollows, TeamGroupFollows, LeadersStay, NeverUp

\* When nothing is under way and nothing has failed, the Nextcloud groups of rank, of team
\* and of Leaders are those of the records, through edits, promotions, moves and renamings.
THEOREM GroupsFollowCorrect == Spec => []GroupsFollow
<1>1. RosterInv => GroupsFollow
  BY QuietGroups
<1>2. QED
  BY <1>1, RosterInvCorrect, PTL

LEMMA OnlyCommits ==
  ASSUME [Next]_vars, executed' # executed
  PROVE  \E r \in Slots : Commit(r)
<1>1. ~UNCHANGED vars
  BY DEF vars, history
<1>2. ~Begins
  BY DEF Begins, BeginEdit, BeginPromote, BeginBatch, BeginStage, BeginRemove, BeginRestage,
         BeginFinalize, BeginMove, BeginRename, AtDesk
<1>3. ~Crash
  BY DEF Crash, history
<1>4. ASSUME NEW r \in Slots, Continues(r) PROVE Commit(r)
  BY <1>4 DEF Continues, PostEdit, Cascade, SyncRank, Migrate, SaveStage, ExecuteStage, AllExecuted,
              SyncMove, Drop, history
<1>5. QED
  BY <1>1, <1>2, <1>3, <1>4 DEF Next

\* finalize_staged carries a staged change out once, and none that was taken back, unless
\* two requests had read its member at once.
THEOREM StagedOnceCorrect == Spec => StagedOnce
<1> DEFINE A == \A s \in Stages :
                  executed'[s] # executed[s] /\ stages[s].member \notin crossed
                    => executed[s] = 0 /\ stages[s].status = "staged"
<1>1. RosterInv /\ [Next]_vars => [A]_executed
  <2> SUFFICES ASSUME RosterInv, [Next]_vars, executed' # executed,
                      NEW s \in Stages, executed'[s] # executed[s], stages[s].member \notin crossed
               PROVE  executed[s] = 0 /\ stages[s].status = "staged"
    OBVIOUS
  <2>1. PICK r \in Slots : Commit(r)
    BY OnlyCommits
  <2>2. PICK p : Commits(r, p)
    BY <2>1, CommitIs
  <2>3. s \in p.done /\ p = req[r] /\ p # NoRequest
    BY <2>2 DEF Commits, Commit
  <2>4. /\ \A i \in Stages : stages[i] # NoStage /\ executed[i] # 0 /\ stages[i].member \notin crossed
             => stages[i].status = "finalized"
        /\ StageFits(r)
    BY DEF RosterInv, StageInv
  <2>5. stages[s] # NoStage /\ stages[s].status = "staged"
    BY <2>3, <2>4 DEF StageFits
  <2>6. QED
    BY <2>4, <2>5
<1>2. QED
  BY <1>1, RosterInvCorrect, PTL DEF Spec, StagedOnce
=============================================================================
