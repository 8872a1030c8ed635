----------------------------- MODULE Elections -----------------------------
(***************************************************************************)
(* One election of the portal (app/routes/elections.py): its phases, the   *)
(* nominations and the secret ballot.  The handlers are coroutines of one  *)
(* server process: between two awaited statements of one, any other may    *)
(* run, each in a transaction of its own (PostgreSQL, read committed).     *)
(* A request therefore decides on what it has read and commits later.      *)
(*                                                                         *)
(* The ORM writes a column at commit only if its new value differs from    *)
(* the value that was read, and writes it whatever the row now holds.      *)
(***************************************************************************)
EXTENDS Integers, Sequences, FiniteSets

CONSTANTS
  Members,      \* the members, who vote, nominate and stand
  Requests,     \* slots for HTTP requests in progress
  Kinds,        \* the endpoints in use
  Schedules,    \* the four dates an election may be created with
  QuorumPct,    \* quorum_pct
  NoOne,        \* the member of an idle request slot
  MaxTime,      \* bound on the clock
  MaxChanges    \* bound on changes of members' eligibility

AllKinds == {"page", "advance", "nominate", "accept", "decline", "vote"}
PHASE_ORDER == <<"scheduled", "nominations", "voting", "complete">>
Phases == {PHASE_ORDER[i] : i \in 1..4}
Dates == [nomOpen : Nat, nomClose : Nat, voteOpen : Nat, voteClose : Nat]

ASSUME MembersAssumption == IsFiniteSet(Members)
ASSUME NoOneAssumption == NoOne \notin Members
ASSUME KindsAssumption == Kinds \subseteq AllKinds
ASSUME SchedulesAssumption == Schedules \subseteq Dates
ASSUME BoundsAssumption ==
  MaxTime \in Nat /\ MaxChanges \in Nat /\ QuorumPct \in Nat

VARIABLES
  dates,          \* the four dates, as the creator typed them
  phase,          \* Election.phase
  eligibleCount,  \* Election.eligible_count, 0 for NULL
  standing,       \* ElectionNomination: member -> none, or its "accepted"
  receipts,       \* ElectionNominationReceipt: who has nominated
  ballots,        \* ElectionBallot: the nominees, in the order of insertion
  roll,           \* ElectionVoterRoll: who has voted
  eligible,       \* the members that _is_eligible accepts
  now,            \* _now_utc()
  req,            \* the requests in progress
  changes

electionRow == <<phase, eligibleCount>>
nominationRows == <<standing, receipts>>
voteRows == <<ballots, roll>>
world == <<dates, eligible, now, changes>>
vars == <<electionRow, nominationRows, voteRows, world, req>>

Standings == {"none", "pending", "accepted", "declined"}

\* phase and count: first as read, then as they are to be written
RequestRecords ==
  [kind : AllKinds \cup {"idle"}, pc : {"start", "who", "once", "choice",
     "record", "count", "flushed", "commit"},
   member : Members \cup {NoOne}, choice : Members \cup {NoOne},
   phase : Phases, base : Nat, count : Nat, seen : Standings]

TypeOK ==
  /\ dates \in Dates
  /\ phase \in Phases
  /\ eligibleCount \in Nat
  /\ standing \in [Members -> Standings]
  /\ receipts \subseteq Members
  /\ ballots \in Seq(Members)
  /\ roll \subseteq Members
  /\ eligible \subseteq Members
  /\ now \in 0..MaxTime
  /\ req \in [Requests -> RequestRecords]
  /\ changes \in 0..MaxChanges

Idle == [kind |-> "idle", pc |-> "start", member |-> NoOne,
         choice |-> NoOne, phase |-> "scheduled", base |-> 0, count |-> 0,
         seen |-> "none"]

\* create_election at time 0: the dates are parsed and not compared
Init ==
  /\ dates \in Schedules
  /\ phase = IF dates.nomOpen > 0 THEN "scheduled" ELSE "nominations"
  /\ eligibleCount = 0
  /\ standing = [m \in Members |-> "none"]
  /\ receipts = {} /\ ballots = <<>> /\ roll = {}
  /\ eligible = Members
  /\ now = 0 /\ changes = 0
  /\ req = [r \in Requests |-> Idle]

-----------------------------------------------------------------------------
(***************************************************************************)
(* Helpers.                                                                *)
(***************************************************************************)
IsWindowOpen(open, close) == open <= now /\ now <= close

\* Mutant: voting begins only while its window is open
AdvancedInWindow(p) ==
  LET p1 == IF p = "scheduled" /\ now >= dates.nomOpen
              THEN "nominations" ELSE p
      p2 == IF p1 = "nominations" /\ IsWindowOpen(dates.voteOpen, dates.voteClose)
              THEN "voting" ELSE p1
  IN  IF p2 = "voting" /\ now >= dates.voteClose THEN "complete" ELSE p2

\* Where the loop of _auto_advance takes phase p
Advanced(p) ==
  LET p1 == IF p = "scheduled" /\ now >= dates.nomOpen
              THEN "nominations" ELSE p
      p2 == IF p1 = "nominations" /\ now >= dates.voteOpen
              THEN "voting" ELSE p1
  IN  IF p2 = "voting" /\ now >= dates.voteClose THEN "complete" ELSE p2

BeforeVoting == {"scheduled", "nominations"}

NextPhase(p) ==
  CASE p = "scheduled"   -> "nominations"
    [] p = "nominations" -> "voting"
    [] OTHER             -> "complete"

\* Request r, which passed the checks of step "from", goes on with step "to"
Proceed(r, from, to) == req' = [req EXCEPT ![r].pc = to]

\* The response is sent, and with it the session closed
Respond(r) == req' = [req EXCEPT ![r] = Idle]

\* r's session holds the lock of the election row: flushed, not committed
RowLocked == \E r \in Requests : req[r].pc = "flushed"

-----------------------------------------------------------------------------
(***************************************************************************)
(* The phase: GET of the election page (election_page, _auto_advance) and  *)
(* the admin's override (advance_phase).                                   *)
(***************************************************************************)
\* A page that finds nothing to advance changes nothing, and is left out
ViewPage(r) ==
  LET to == Advanced(phase) IN
  /\ "page" \in Kinds /\ req[r] = Idle
  /\ to # phase
  /\ req' = [req EXCEPT ![r] =
       [Idle EXCEPT !.kind = "page", !.phase = to,
                    !.base = eligibleCount, !.count = eligibleCount,
                    !.pc = IF /\ phase \in BeforeVoting
                              /\ to \in {"voting", "complete"}
                             THEN "count" ELSE "commit"]]
  /\ UNCHANGED <<electionRow, nominationRows, voteRows, world>>

AdvancePhase(r) ==
  LET to == NextPhase(phase) IN
  /\ "advance" \in Kinds /\ req[r] = Idle
  /\ phase # "complete"
  /\ req' = [req EXCEPT ![r] =
       [Idle EXCEPT !.kind = "advance", !.phase = to,
                    !.base = eligibleCount, !.count = eligibleCount,
                    !.pc = IF to = "voting" THEN "count" ELSE "commit"]]
  /\ UNCHANGED <<electionRow, nominationRows, voteRows, world>>

(***************************************************************************)
(* The snapshot.  _auto_advance has assigned the phase already, and the    *)
(* query flushes it: the row stays locked from here to the commit.         *)
(***************************************************************************)
CountEligible(r) ==
  /\ req[r].kind \in {"page", "advance"} /\ req[r].pc = "count"
  /\ req[r].kind = "page" => ~RowLocked
  /\ req' = [req EXCEPT ![r].count = Cardinality(eligible),
                        ![r].pc = IF req[r].kind = "page"
                                    THEN "flushed" ELSE "commit"]
  /\ UNCHANGED <<electionRow, nominationRows, voteRows, world>>

CommitPhase(r) ==
  /\ req[r].kind \in {"page", "advance"}
  /\ \/ req[r].pc = "flushed"
     \/ req[r].pc = "commit" /\ ~RowLocked
  /\ phase' = req[r].phase
  /\ eligibleCount' = IF req[r].count # req[r].base
                        THEN req[r].count ELSE eligibleCount
  /\ Respond(r)
  /\ UNCHANGED <<nominationRows, voteRows, world>>

-----------------------------------------------------------------------------
(***************************************************************************)
(* Checks that submit_nomination and cast_vote have in common.             *)
(***************************************************************************)
Open(r, kind, m, n) ==
  /\ kind \in Kinds /\ req[r] = Idle
  /\ req' = [req EXCEPT ![r] =
       [Idle EXCEPT !.kind = kind, !.member = m, !.choice = n, !.pc = "who"]]
  /\ UNCHANGED <<electionRow, nominationRows, voteRows, world>>

\* _get_member, _is_eligible
CheckMember(r) ==
  /\ req[r].kind \in {"nominate", "vote"} /\ req[r].pc = "who"
  /\ IF req[r].member \in eligible THEN Proceed(r, "who", "once") ELSE Respond(r)
  /\ UNCHANGED <<electionRow, nominationRows, voteRows, world>>

\* existing_receipt, existing_vote
CheckOnce(r) ==
  LET done == IF req[r].kind = "vote" THEN roll ELSE receipts IN
  /\ req[r].kind \in {"nominate", "vote"} /\ req[r].pc = "once"
  /\ IF req[r].member \in done THEN Respond(r) ELSE Proceed(r, "once", "choice")
  /\ UNCHANGED <<electionRow, nominationRows, voteRows, world>>

-----------------------------------------------------------------------------
(***************************************************************************)
(* submit_nomination.                                                      *)
(***************************************************************************)
Nominate(r, m, n) ==
  /\ phase = "nominations" /\ IsWindowOpen(dates.nomOpen, dates.nomClose)
  /\ Open(r, "nominate", m, n)

CheckNominee(r) ==
  /\ req[r].kind = "nominate" /\ req[r].pc = "choice"
  /\ IF req[r].choice \in eligible
       THEN Proceed(r, "choice", "record") ELSE Respond(r)
  /\ UNCHANGED <<electionRow, nominationRows, voteRows, world>>

\* existing_nom
FindNomination(r) ==
  /\ req[r].kind = "nominate" /\ req[r].pc = "record"
  /\ req' = [req EXCEPT ![r].seen = standing[req[r].choice],
                        ![r].pc = "commit"]
  /\ UNCHANGED <<electionRow, nominationRows, voteRows, world>>

\* Mutant: "create or get" overwrites the nomination that is there
OverwritesNomination(r) ==
  LET q == req[r] IN
  /\ q.kind = "nominate" /\ q.pc = "commit"
  /\ IF q.member \in receipts
       THEN UNCHANGED nominationRows
       ELSE /\ receipts' = receipts \cup {q.member}
            /\ standing' = [standing EXCEPT ![q.choice] = "pending"]
  /\ Respond(r)
  /\ UNCHANGED <<electionRow, voteRows, world>>

\* Mutant: the nomination is committed by itself, before the receipt
TwoTransactions(r) ==
  LET q == req[r] IN
  /\ q.kind = "nominate" /\ q.pc = "commit"
  /\ standing' = IF standing[q.choice] = "none"
                   THEN [standing EXCEPT ![q.choice] = "pending"]
                   ELSE standing
  /\ receipts' = receipts \cup {q.member}
  /\ Respond(r)
  /\ UNCHANGED <<electionRow, voteRows, world>>

(***************************************************************************)
(* One transaction for the nomination and the receipt.  UNIQUE refuses a   *)
(* second receipt of the member, and a nomination of the nominee that was  *)
(* inserted meanwhile: nothing is written, and the response is a 500.      *)
(***************************************************************************)
CommitNomination(r) ==
  LET q == req[r]
      violation == \/ q.member \in receipts
                   \/ q.seen = "none" /\ standing[q.choice] # "none"
  IN
  /\ q.kind = "nominate" /\ q.pc = "commit"
  /\ IF violation
       THEN UNCHANGED nominationRows
       ELSE /\ receipts' = receipts \cup {q.member}
            /\ standing' = IF q.seen = "none"
                             THEN [standing EXCEPT ![q.choice] = "pending"]
                             ELSE standing
  /\ Respond(r)
  /\ UNCHANGED <<electionRow, voteRows, world>>

-----------------------------------------------------------------------------
(***************************************************************************)
(* accept_nomination and decline_nomination: the phase is checked, the     *)
(* window is not.                                                          *)
(***************************************************************************)
Answer(r, kind, m) ==
  /\ kind \in {"accept", "decline"}
  /\ phase = "nominations"
  /\ Open(r, kind, m, m)

FindOwnNomination(r) ==
  LET own == standing[req[r].member] IN
  /\ req[r].kind \in {"accept", "decline"} /\ req[r].pc = "who"
  /\ IF own = "none"
       THEN Respond(r)
       ELSE req' = [req EXCEPT ![r].seen = own, ![r].pc = "commit"]
  /\ UNCHANGED <<electionRow, nominationRows, voteRows, world>>

\* Mutant: what the button is called is stored instead of the answer
AnswerMisspelt(r) ==
  /\ req[r].kind \in {"accept", "decline"} /\ req[r].pc = "commit"
  /\ standing' = [standing EXCEPT ![req[r].member] = req[r].kind]
  /\ Respond(r)
  /\ UNCHANGED <<electionRow, receipts, voteRows, world>>

CommitAnswer(r) ==
  LET q == req[r]
      answer == IF q.kind = "accept" THEN "accepted" ELSE "declined"
  IN
  /\ q.kind \in {"accept", "decline"} /\ q.pc = "commit"
  /\ standing' = IF q.seen = answer
                   THEN standing
                   ELSE [standing EXCEPT ![q.member] = answer]
  /\ Respond(r)
  /\ UNCHANGED <<electionRow, receipts, voteRows, world>>

-----------------------------------------------------------------------------
(***************************************************************************)
(* cast_vote.                                                              *)
(***************************************************************************)
CastVote(r, m, n) ==
  /\ phase = "voting" /\ IsWindowOpen(dates.voteOpen, dates.voteClose)
  /\ Open(r, "vote", m, n)

\* nom_check
CheckBallot(r) ==
  /\ req[r].kind = "vote" /\ req[r].pc = "choice"
  /\ IF standing[req[r].choice] = "accepted"
       THEN Proceed(r, "choice", "commit") ELSE Respond(r)
  /\ UNCHANGED <<electionRow, nominationRows, voteRows, world>>

\* Mutant: no UNIQUE constraint, only the check of existing_vote
NoConstraint(r) ==
  /\ req[r].kind = "vote" /\ req[r].pc = "commit"
  /\ ballots' = Append(ballots, req[r].choice)
  /\ roll' = roll \cup {req[r].member}
  /\ Respond(r)
  /\ UNCHANGED <<electionRow, nominationRows, world>>

\* Mutant: the roll says that the member has voted, the ballot is lost
BallotLost(r) ==
  /\ req[r].kind = "vote" /\ req[r].pc = "commit"
  /\ roll' = roll \cup {req[r].member}
  /\ Respond(r)
  /\ UNCHANGED <<electionRow, nominationRows, ballots, world>>

\* Ballot and roll in one transaction; UNIQUE refuses the second of a member
CommitVote(r) ==
  LET q == req[r] IN
  /\ q.kind = "vote" /\ q.pc = "commit"
  /\ IF q.member \in roll
       THEN UNCHANGED voteRows
       ELSE /\ ballots' = Append(ballots, q.choice)
            /\ roll' = roll \cup {q.member}
  /\ Respond(r)
  /\ UNCHANGED <<electionRow, nominationRows, world>>

-----------------------------------------------------------------------------
(***************************************************************************)
(* Around the election: time passes, S1 promotes and discharges members.   *)
(***************************************************************************)
Tick ==
  /\ now < MaxTime
  /\ now' = now + 1
  /\ UNCHANGED <<electionRow, nominationRows, voteRows, dates, eligible, changes,
                 req>>

ChangeEligibility(m) ==
  /\ changes < MaxChanges
  /\ changes' = changes + 1
  /\ eligible' = IF m \in eligible THEN eligible \ {m} ELSE eligible \cup {m}
  /\ UNCHANGED <<electionRow, nominationRows, voteRows, dates, now, req>>

Arrive(r) ==
  \/ ViewPage(r) \/ AdvancePhase(r)
  \/ \E m, n \in Members : Nominate(r, m, n) \/ CastVote(r, m, n)
  \/ \E m \in Members, kind \in {"accept", "decline"} : Answer(r, kind, m)

Serve(r) ==
  \/ CountEligible(r) \/ CommitPhase(r)
  \/ CheckMember(r) \/ CheckOnce(r)
  \/ CheckNominee(r) \/ FindNomination(r) \/ CommitNomination(r)
  \/ FindOwnNomination(r) \/ CommitAnswer(r)
  \/ CheckBallot(r) \/ CommitVote(r)

Next ==
  \/ \E r \in Requests : Arrive(r) \/ Serve(r)
  \/ Tick
  \/ \E m \in Members : ChangeEligibility(m)

Spec == Init /\ [][Next]_vars

(***************************************************************************)
(* The server completes every request, the clock runs, and members keep    *)
(* opening the page of an election that has not been advanced yet (that is *)
(* an assumption about them: nothing but a page view advances an election).*)
(***************************************************************************)
FairSpec ==
  /\ Spec
  /\ WF_vars(Tick)
  /\ \A r \in Requests : WF_vars(Serve(r))
  /\ SF_vars(\E r \in Requests : ViewPage(r))

-----------------------------------------------------------------------------
(***************************************************************************)
(* Properties.                                                             *)
(***************************************************************************)
(***************************************************************************)
(* "/vote writes ballot + voter_roll in one transaction": double clicks    *)
(* and two tabs included, the box holds one ballot per name on the roll.   *)
(***************************************************************************)
BallotsMatchRoll == Len(ballots) = Cardinality(roll)

(***************************************************************************)
(* The portal's voting implements the ballot box: at no step does a ballot *)
(* or a name disappear, change, or come without the other.                 *)
(***************************************************************************)
Box == INSTANCE BallotBox WITH box <- ballots, voters <- roll
BoxSpec == Box!Spec

(***************************************************************************)
(* Every ballot is for a member who was nominated and has answered.        *)
(***************************************************************************)
BallotsForCandidates ==
  \A i \in 1..Len(ballots) : standing[ballots[i]] \in {"accepted", "declined"}

(***************************************************************************)
(* "One per member per election": nobody's name stands for more than one   *)
(* nomination, so nominees are never more than the members who nominated,  *)
(* also when nominations of one nominee or by one member race.             *)
(***************************************************************************)
Nominees == {m \in Members : standing[m] # "none"}
NominationsMatchReceipts ==
  /\ Cardinality(Nominees) <= Cardinality(receipts)
  /\ receipts # {} => Nominees # {}

(***************************************************************************)
(* Liveness: whatever page views and overrides race, an election ends      *)
(* complete, also one that nobody looked at in its voting window.          *)
(***************************************************************************)
EndsComplete == <>[](phase = "complete")

(***************************************************************************)
(* "You cannot change your nomination status" once nominations are closed  *)
(* (decline_nomination): every ballot is for a nominee who still stands.   *)
(***************************************************************************)
BallotsStand == \A i \in 1..Len(ballots) : standing[ballots[i]] = "accepted"

(***************************************************************************)
(* "Advance election to next phase" (advance_phase): no step takes an      *)
(* election back to an earlier phase.                                      *)
(***************************************************************************)
Rank(p) == CHOOSE i \in 1..4 : PHASE_ORDER[i] = p
PhaseAdvances == [][Rank(phase) <= Rank(phase')]_vars

(***************************************************************************)
(* "Snapshot of eligible voters taken at voting_open"                      *)
(* (models/elections.py): the base of the quorum is not taken anew after   *)
(* votes have been cast.                                                   *)
(***************************************************************************)
SnapshotKept == [][ballots # <<>> => eligibleCount' = eligibleCount]_vars

(***************************************************************************)
(* "Minimum participation % required for a valid result"                   *)
(* (models/elections.py): quorum_met, as election_page computes it, means  *)
(* that this share of the eligible members voted.  Python rounds half to   *)
(* even.                                                                   *)
(***************************************************************************)
RoundedPercent(n) ==
  LET q == n \div 100
      rest == n % 100
  IN  IF rest > 50 \/ (rest = 50 /\ q % 2 = 1) THEN q + 1 ELSE q

QuorumBase == IF eligibleCount = 0 THEN 1 ELSE eligibleCount
quorum_met ==
  phase = "complete" /\ Len(ballots) >= RoundedPercent(QuorumBase * QuorumPct)
QuorumMeansParticipation ==
  quorum_met => Len(ballots) * 100 >= QuorumPct * QuorumBase
=============================================================================
