----------------------------- MODULE OpsConsole -----------------------------
(***************************************************************************)
(* The extra duties of one event, kept at the operations console           *)
(* (app/routes/ops_console.py): the guard and its slots, the duty team,    *)
(* the battle buddies and the vexillations.  Officers work at once: a      *)
(* request reads what stands, and commits what it made of it later; a      *)
(* commit that breaks a constraint of the tables is rolled back.           *)
(***************************************************************************)
EXTENDS Integers, FiniteSets

CONSTANTS
  Members,        \* those who answered the invitation, so that they have a row
  Guests,
  TeamMates,      \* the members of the geographic team put on duty
  Vexes,          \* the vexillations that may be created
  MaxSlots,       \* bound on the slots of one configuration
  MaxActive,      \* bound on the requests in progress at once
  MaxRequests     \* bound on the requests begun

VARIABLES
  present,  \* members and guests checked in
  immune,   \* members exempt from extra duties
  slots,    \* guard slots: [conf, number], conf the request that made them
  guard,    \* guard duties: [who, number, slot, by]
  duty,     \* members on the duty team: member -> "none", "ad_hoc" or "geo_team"
  vexes,    \* vexillations that stand
  vexed,    \* vexillation assignments: <<vexillation, who>>
  buddies,  \* buddy pairs <<a, b>>
  req,      \* the requests in progress
  begun,
  given,    \* history: members given a duty by hand and not relieved
  pressed,  \* history: members put on guard or duty, unasked, while immune
  batch,    \* history: what the last automatic assignment added
  stuck,    \* history: a configuration failed although alone
  crossed   \* history: what requests overlapped on

vars == <<present, immune, slots, guard, duty, vexes, vexed, buddies, req, begun,
          given, pressed, batch, stuck, crossed>>
tables == <<slots, guard, duty, vexes, vexed, buddies>>
hist == <<given, pressed, batch, stuck>>

People == Members \cup Guests
Slots == 1..MaxActive
NoRequest == [op |-> "none"]
NoSlot == [conf |-> 0, number |-> 0]
Rows(who) == {g \in guard : g.who = who}

\* Types; a person stands once at most in a slot number.
TypeOK ==
  /\ present \subseteq People /\ immune \subseteq Members
  /\ \A s \in slots : s.number \in 1..MaxSlots /\ s.conf \in 1..MaxRequests
  /\ \A g \in guard : g.who \in People /\ g.number \in 1..MaxSlots /\ g.by \in {"hand", "auto"}
  /\ \A g, h \in guard : g.who = h.who /\ g.number = h.number => g = h
  /\ duty \in [Members -> {"none", "ad_hoc", "geo_team"}]
  /\ vexes \subseteq Vexes /\ vexed \subseteq vexes \X People
  /\ \A p \in buddies : p \in People \X (People \cup {"nobody"})

Init ==
  /\ present \in SUBSET People /\ immune \in SUBSET Members
  /\ slots = {} /\ guard = {} /\ duty = [m \in Members |-> "none"]
  /\ vexes = {} /\ vexed = {} /\ buddies = {}
  /\ req = [r \in Slots |-> NoRequest] /\ begun = 0
  /\ given = {} /\ pressed = {} /\ batch = {} /\ stuck = FALSE /\ crossed = {}

Count == begun < MaxRequests /\ begun' = begun + 1
\* What overlaps matter to: automatic assignments and configurations.
Begin(request) ==
  /\ Count
  /\ \E r \in Slots :
       /\ req[r] = NoRequest /\ \A q \in Slots : q < r => req[q] # NoRequest
       /\ req' = [req EXCEPT ![r] = request]
       /\ crossed' = crossed \cup {request.op : q \in {q \in Slots \ {r} : req[q].op = request.op}}
End(r) == req' = [req EXCEPT ![r] = NoRequest]

-----------------------------------------------------------------------------
\* manual_checkin: a member checked in already is checked in again.
CheckIn(m) ==
  /\ Count /\ present' = present \cup {m}
  /\ UNCHANGED <<immune, tables, req, hist, crossed>>
\* manual_uncheckin: the duties are left in place.
UncheckIn(m) ==
  /\ m \in present /\ Count /\ present' = present \ {m}
  /\ UNCHANGED <<immune, tables, req, hist, crossed>>
\* add_walkin_guest: the guest is checked in.
WalkIn(g) ==
  /\ g \notin present /\ Count /\ present' = present \cup {g}
  /\ UNCHANGED <<immune, tables, req, hist, crossed>>
\* toggle_immunes: "Existing assignments are left in place."
ToggleImmunes(m) ==
  /\ Count /\ immune' = IF m \in immune THEN immune \ {m} ELSE immune \cup {m}
  /\ crossed' = IF \E r \in Slots : req[r] # NoRequest THEN crossed \cup {m} ELSE crossed
  /\ UNCHANGED <<present, tables, req, hist>>

-----------------------------------------------------------------------------
\* configure_guard_slots: the slots that stood go, n new ones come.
Configure(n) ==
  /\ Begin([op |-> "configure", conf |-> begun + 1, n |-> n, old |-> slots])
  /\ UNCHANGED <<present, immune, tables, hist>>
\* Mutant: the slots that stood stay.
Kept(q) == {}
Replaced(q) == q.old
\* A slot somebody guards cannot be deleted (the foreign key of
\* event_guard_duty): everything is rolled back.
CommitConfigure(r) ==
  LET q == req[r]
      held == \E g \in guard : g.slot \in Replaced(q) IN
  /\ q.op = "configure" /\ End(r)
  /\ IF held THEN UNCHANGED slots
     ELSE slots' = (slots \ Replaced(q)) \cup {[conf |-> q.conf, number |-> i] : i \in 1..q.n}
  /\ stuck' = (stuck \/ (held /\ crossed = {}))
  /\ UNCHANGED <<present, immune, guard, duty, vexes, vexed, buddies, begun,
                 given, pressed, batch, crossed>>

\* Mutant: the exemption is not looked at.
Nobody == {}
Spared == immune
SlotOf(n) == IF \E s \in slots : s.number = n THEN CHOOSE s \in slots : s.number = n ELSE NoSlot
\* assign_guard: no check-in is asked for; a slot number found twice is an error.
Guard(who, n, override) ==
  /\ who \in Spared => override
  /\ Cardinality({s \in slots : s.number = n}) < 2
  /\ Begin([op |-> "guard", who |-> who, n |-> n, slot |-> SlotOf(n), override |-> override])
  /\ UNCHANGED <<present, immune, tables, hist>>
Standing(slot) == slot = NoSlot \/ slot \in slots
CommitGuard(r) ==
  LET q == req[r]
      done == Standing(q.slot) /\ \A g \in Rows(q.who) : g.number # q.n IN
  /\ q.op = "guard" /\ End(r)
  /\ IF done
     THEN /\ guard' = guard \cup {[who |-> q.who, number |-> q.n, slot |-> q.slot, by |-> "hand"]}
          /\ pressed' = pressed \cup (IF q.override THEN {} ELSE {q.who} \cap immune)
     ELSE UNCHANGED <<guard, pressed>>
  /\ UNCHANGED <<present, immune, slots, duty, vexes, vexed, buddies, begun,
                 given, batch, stuck, crossed>>

\* Mutant: those on guard already are assigned again.
AllPresent == present \ Spared
\* _guard_auto_assign_targets.
Targets == {p \in present \ Spared : Rows(p) = {}}
\* Mutant: the first slot takes everybody.
FirstSlot(order, ranked) == [p \in DOMAIN order |-> ranked[1]]
\* The targets in order, slot by slot.
Distributed(order, ranked) ==
  [p \in DOMAIN order |-> ranked[((order[p] - 1) % Cardinality(DOMAIN ranked)) + 1]]
Orders(S) == {f \in [S -> 1..Cardinality(S)] : \A x, y \in S : f[x] = f[y] => x = y}
\* The slots by number; equal numbers come as they come.
Ranked == {f \in [1..Cardinality(slots) -> slots] :
             \A i, j \in DOMAIN f : /\ f[i] = f[j] => i = j
                                    /\ i < j => f[i].number <= f[j].number}
\* auto_assign_guard: members in any order, then guests.
Auto ==
  /\ slots # {}
  /\ \E order \in Orders(Targets), ranked \in Ranked :
       /\ \A g \in Targets \cap Guests, m \in Targets \cap Members : order[m] < order[g]
       /\ Begin([op |-> "auto", posts |-> Distributed(order, ranked)])
  /\ UNCHANGED <<present, immune, tables, hist>>
CommitAuto(r) ==
  LET q == req[r]
      new == {[who |-> p, number |-> q.posts[p].number, slot |-> q.posts[p], by |-> "auto"]
                : p \in DOMAIN q.posts}
      done == \A d \in new : Standing(d.slot) /\ \A g \in Rows(d.who) : g.number # d.number IN
  /\ q.op = "auto" /\ End(r)
  /\ IF done
     THEN /\ guard' = guard \cup new /\ batch' = new
          /\ pressed' = pressed \cup (DOMAIN q.posts \cap immune)
     ELSE UNCHANGED <<guard, batch, pressed>>
  /\ UNCHANGED <<present, immune, slots, duty, vexes, vexed, buddies, begun, given, stuck, crossed>>
\* unassign_guard.
Relieve(g) ==
  /\ g \in guard /\ Count /\ guard' = guard \ {g}
  /\ UNCHANGED <<present, immune, slots, duty, vexes, vexed, buddies, req, hist, crossed>>

-----------------------------------------------------------------------------
\* assign_duty: a duty that stands is rewritten.
Duty(m, override) ==
  /\ m \in present /\ (m \in Spared => override)
  /\ Begin([op |-> "duty", who |-> m, override |-> override, found |-> duty[m] # "none"])
  /\ UNCHANGED <<present, immune, tables, hist>>
\* A row that came or went since it was read breaks the commit.
CommitDuty(r) ==
  LET q == req[r]
      done == q.found = (duty[q.who] # "none") IN
  /\ q.op = "duty" /\ End(r)
  /\ IF done
     THEN /\ duty' = [duty EXCEPT ![q.who] = "ad_hoc"] /\ given' = given \cup {q.who}
          /\ pressed' = pressed \cup (IF q.override THEN {} ELSE {q.who} \cap immune)
     ELSE UNCHANGED <<duty, given, pressed>>
  /\ UNCHANGED <<present, immune, slots, guard, vexes, vexed, buddies, begun, batch, stuck, crossed>>
\* assign_duty_from_team: the immunes and those on duty already are left out.
OnTeam == {m \in TeamMates \cap present : m \notin Spared /\ duty[m] = "none"}
DutyTeam ==
  /\ Begin([op |-> "team", who |-> OnTeam])
  /\ UNCHANGED <<present, immune, tables, hist>>
\* Mutant: a duty given meanwhile is overwritten.
Overwrites(q) == TRUE
\* One duty each (uq_duty_assign_member), or none of the team's is kept.
StillFree(q) == \A m \in q.who : duty[m] = "none"
CommitDutyTeam(r) ==
  LET q == req[r] IN
  /\ q.op = "team" /\ End(r)
  /\ IF StillFree(q)
     THEN /\ duty' = [m \in Members |-> IF m \in q.who THEN "geo_team" ELSE duty[m]]
          /\ pressed' = pressed \cup (q.who \cap immune)
     ELSE UNCHANGED <<duty, pressed>>
  /\ UNCHANGED <<present, immune, slots, guard, vexes, vexed, buddies, begun,
                 given, batch, stuck, crossed>>
\* unassign_duty.
Unassign(m) ==
  /\ duty[m] # "none" /\ Count /\ duty' = [duty EXCEPT ![m] = "none"] /\ given' = given \ {m}
  /\ UNCHANGED <<present, immune, slots, guard, vexes, vexed, buddies, req,
                 pressed, batch, stuck, crossed>>

-----------------------------------------------------------------------------
CreateVex(v) ==
  /\ v \notin vexes /\ Count /\ vexes' = vexes \cup {v}
  /\ UNCHANGED <<present, immune, slots, guard, duty, vexed, buddies, req, hist, crossed>>
\* Mutant: those assigned stay with the vexillation deleted.
NotCascaded(v) == {}
Cascaded(v) == {x \in vexed : x[1] = v}
DeleteVex(v) ==
  /\ v \in vexes /\ Count /\ vexes' = vexes \ {v} /\ vexed' = vexed \ Cascaded(v)
  /\ UNCHANGED <<present, immune, slots, guard, duty, buddies, req, hist, crossed>>
\* Mutant: a member stays where the member was.
NotLeft(who) == {}
Left(who) == IF who \in Members THEN {x \in vexed : x[2] = who} ELSE {}
\* assign_vexillation: of two that overlap for one member the later fails as a
\* whole (uq_vex_assign_member).
AssignVex(v, who) ==
  /\ v \in vexes /\ Count /\ vexed' = (vexed \ Left(who)) \cup {<<v, who>>}
  /\ UNCHANGED <<present, immune, slots, guard, duty, vexes, buddies, req, hist, crossed>>
\* pair_buddy: a member is the first of one pair, and the second of one, which
\* may be the same (uq_buddy_member_a, uq_buddy_member_b).
PairBuddy(a, b) ==
  /\ Count
  /\ a \in Members => \A p \in buddies : p[1] # a
  /\ b \in Members => \A p \in buddies : p[2] # b
  /\ buddies' = buddies \cup {<<a, b>>}
  /\ UNCHANGED <<present, immune, slots, guard, duty, vexes, vexed, req, hist, crossed>>
UnpairBuddy(p) ==
  /\ p \in buddies /\ Count /\ buddies' = buddies \ {p}
  /\ UNCHANGED <<present, immune, slots, guard, duty, vexes, vexed, req, hist, crossed>>

AnybodyNext ==
  \/ \E m \in Members : CheckIn(m) \/ UncheckIn(m) \/ ToggleImmunes(m)
  \/ \E g \in Guests : WalkIn(g)
GuardNext ==
  \/ \E n \in 1..MaxSlots : Configure(n)
  \/ \E who \in People, n \in 1..MaxSlots, override \in BOOLEAN : Guard(who, n, override)
  \/ Auto
  \/ \E g \in guard : Relieve(g)
  \/ \E r \in Slots : CommitConfigure(r) \/ CommitGuard(r) \/ CommitAuto(r)
DutyNext ==
  \/ \E m \in Members : Unassign(m) \/ \E override \in BOOLEAN : Duty(m, override)
  \/ DutyTeam
  \/ \E r \in Slots : CommitDuty(r) \/ CommitDutyTeam(r)
TeamsNext ==
  \/ \E v \in Vexes : \/ CreateVex(v) \/ DeleteVex(v)
                      \/ \E who \in People : AssignVex(v, who)
  \/ \E a \in People, b \in People \cup {"nobody"} : PairBuddy(a, b)
  \/ \E p \in buddies : UnpairBuddy(p)
Next == AnybodyNext \/ GuardNext \/ DutyNext \/ TeamsNext
Spec == Init /\ [][Next]_vars

-----------------------------------------------------------------------------
\* "Immunes members are not silently assigned": nobody exempt since before a
\* request began is on guard or on duty by it, unless the officer overrode.
ImmunesAreSpared == pressed \subseteq crossed

\* Nobody is put on guard twice by the automatic assignment, unless two of
\* them overlapped, and each spreads the people it takes over the slots.
AutoGuardsOnce ==
  /\ "auto" \notin crossed =>
       \A p \in People : Cardinality({g \in Rows(p) : g.by = "auto"}) <= 1
  /\ "configure" \notin crossed /\ {g.slot : g \in batch} \subseteq slots =>
       \A s, t \in slots :
         Cardinality({g \in batch : g.slot = s})
           <= Cardinality({g \in batch : g.slot = t}) + 1

\* A slot number names one slot, and every guard's slot is there, unless two
\* configurations overlapped.
SlotsStand ==
  "configure" \notin crossed =>
    /\ \A s, t \in slots : s.number = t.number => s = t
    /\ \A g \in guard : g.slot # NoSlot => g.slot \in slots /\ g.slot.number = g.number

\* A duty given by hand is not taken by the team's, whatever overlaps.
GivenDutiesStand == \A m \in given : duty[m] = "ad_hoc"

\* A member is in one vexillation, of those that stand.
OneVexEach ==
  /\ \A x, y \in vexed : x[2] = y[2] /\ x[2] \in Members => x = y
  /\ \A x \in vexed : x[1] \in vexes

\* The console is in order: the parts above, which the README explains.
ConsoleIsInOrder ==
  /\ TypeOK /\ ImmunesAreSpared /\ AutoGuardsOnce /\ SlotsStand
  /\ GivenDutiesStand /\ OneVexEach

-----------------------------------------------------------------------------
(* Why the console is in order: the inductive invariant. *)

Sound ==
  /\ IsFiniteSet(Members) /\ IsFiniteSet(Guests) /\ TeamMates \subseteq Members
  /\ MaxSlots \in Nat /\ MaxRequests \in Nat

\* Who a request exempts no longer has come to be exempt while it was under way.
Unasked(who) == who \cap immune \subseteq crossed
\* What a request in progress is, by what it will do.
RequestInv(q) ==
  /\ q.op \in {"none", "configure", "guard", "auto", "duty", "team"}
  /\ q.op = "configure" =>
       /\ q.conf \in 1..MaxRequests /\ q.conf \in 1..begun /\ q.n \in 1..MaxSlots
       /\ "configure" \notin crossed => q.old = slots
  /\ q.op = "guard" =>
       /\ q.who \in People /\ q.n \in 1..MaxSlots
       /\ q.slot # NoSlot => q.slot.number = q.n
       /\ q.override \/ Unasked({q.who})
  /\ q.op = "auto" =>
       /\ DOMAIN q.posts \subseteq People /\ Unasked(DOMAIN q.posts)
       /\ \A p \in DOMAIN q.posts : q.posts[p].number \in 1..MaxSlots /\ q.posts[p].conf \in 1..begun
  /\ q.op = "duty" => q.who \in Members /\ (q.override \/ Unasked({q.who}))
  /\ q.op = "team" => q.who \subseteq Members /\ Unasked(q.who)
TypeInv ==
  /\ TypeOK /\ begun \in Nat /\ IsFiniteSet(slots) /\ DOMAIN req = Slots /\ given \subseteq Members
  /\ \A s \in slots : s.conf \in 1..begun
  /\ \A r \in Slots : RequestInv(req[r])

\* Two of a kind have crossed.
LoneInv ==
  \A r, s \in Slots : r # s /\ req[r].op = req[s].op /\ req[r].op # "none" => req[r].op \in crossed

\* Whom an automatic assignment takes has no duty of another.
AutoInv ==
  "auto" \notin crossed =>
    /\ \A g, h \in guard : g.by = "auto" /\ h.by = "auto" /\ g.who = h.who => g = h
    /\ \A r \in Slots : req[r].op = "auto" =>
         \A g \in guard : g.by = "auto" => g.who \notin DOMAIN req[r].posts

\* The slots that a configuration will make are not in use yet.
FreshInv ==
  "configure" \notin crossed => \A r \in Slots : req[r].op = "configure" =>
    /\ \A s \in slots \cup {g.slot : g \in batch} : s.conf # req[r].conf
    /\ \A s \in Slots : req[s].op = "auto" =>
         \A p \in DOMAIN req[s].posts : req[s].posts[p].conf # req[r].conf

\* What is assigned, or about to be, to slots that stand is spread over them.
Posted(posts, slot) == {p \in DOMAIN posts : posts[p] = slot}
SpreadInv ==
  "configure" \notin crossed =>
    /\ {g.slot : g \in batch} \subseteq slots =>
         \A s, t \in slots : Cardinality({g \in batch : g.slot = s}) <= Cardinality({g \in batch : g.slot = t}) + 1
    /\ \A r \in Slots : req[r].op = "auto" =>
         LET posts == req[r].posts
         IN  (\A p \in DOMAIN posts : posts[p] \in slots) =>
               \A s, t \in slots : Cardinality(Posted(posts, s)) <= Cardinality(Posted(posts, t)) + 1
BatchInv == \A g \in batch : g.slot.conf \in 1..begun

ConsoleInv ==
  /\ TypeInv /\ LoneInv /\ AutoInv /\ FreshInv /\ SpreadInv /\ BatchInv
  /\ ImmunesAreSpared /\ SlotsStand /\ GivenDutiesStand /\ OneVexEach

-----------------------------------------------------------------------------
(* What the code does not keep. *)

\* The exemption holds even when it is given while a request is under way.
ImmunesAreAlwaysSpared == pressed = {}

\* The automatic assignment puts everybody on guard once, whatever overlaps.
AutoGuardsAlwaysOnce ==
  \A p \in People : Cardinality({g \in Rows(p) : g.by = "auto"}) <= 1

\* A slot number names one slot even when two configurations overlap.
SlotsAreAlwaysOne == \A s, t \in slots : s.number = t.number => s = t

\* The guard can be configured anew by an officer alone.
GuardsReconfigure == ~stuck

\* "Auto-distribute checked-in members evenly across guard slots".
GuardsAreEven ==
  (\A g \in guard : g.by = "auto") /\ slots # {} =>
    \A s, t \in slots : Cardinality({g \in guard : g.slot = s})
                             <= Cardinality({g \in guard : g.slot = t}) + 1

\* "Battle buddy pairing - event-scoped, reciprocal": a person has one buddy.
BuddiesAreReciprocal ==
  \A p, q \in buddies : {p[1], p[2]} \cap {q[1], q[2]} \cap Members # {} => p = q

\* Only those checked in are on the duty team.
DutyIsForThePresent == \A m \in Members : duty[m] # "none" => m \in present
=============================================================================
