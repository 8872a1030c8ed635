-------------------------- MODULE Elections_proofs --------------------------
(***************************************************************************)
(* Proofs about Elections, for every set of members, every number of       *)
(* concurrent requests, all dates and all eligibility changes.             *)
(***************************************************************************)
EXTENDS Elections, FiniteSetTheorems, TLAPS

MemberKinds == {"nominate", "accept", "decline", "vote"}
Answered == {"accepted", "declined"}

RequestsTyped ==
  /\ req \in [Requests -> RequestRecords]
  /\ \A r \in Requests :
       req[r].kind \in MemberKinds => /\ req[r].member \in Members
                                      /\ req[r].choice \in Members

TypeInv == TypeOK /\ RequestsTyped

-----------------------------------------------------------------------------
(***************************************************************************)
(* Types.                                                                  *)
(***************************************************************************)
LEMMA EligibleCounted == TypeInv => Cardinality(eligible) \in Nat
BY MembersAssumption, FS_Subset, FS_CardinalityType DEF TypeInv, TypeOK

LEMMA IdleType == Idle \in RequestRecords /\ Idle.kind \notin MemberKinds
BY DEF Idle, RequestRecords, AllKinds, MemberKinds, Phases, PHASE_ORDER,
       Standings

\* What the three ways to change a request slot do to its type
LEMMA RespondTyped ==
  ASSUME RequestsTyped, NEW r \in Requests, Respond(r)
  PROVE  RequestsTyped'
<1>1. req' = [req EXCEPT ![r] = Idle]
  BY DEF Respond
<1>2. Idle \in RequestRecords /\ Idle.kind \notin MemberKinds
  BY IdleType
<1>3. QED
  BY <1>1, <1>2 DEF RequestsTyped

LEMMA ProceedTyped ==
  ASSUME RequestsTyped, NEW r \in Requests,
         NEW to \in {"once", "choice", "record", "commit"},
         req' = [req EXCEPT ![r].pc = to]
  PROVE  RequestsTyped'
<1> DEFINE q == [req[r] EXCEPT !.pc = to]
<1>1. req[r] \in RequestRecords
  BY DEF RequestsTyped
<1>2. q \in RequestRecords
  BY <1>1 DEF RequestRecords
<1>3. q.kind = req[r].kind /\ q.member = req[r].member /\ q.choice = req[r].choice
  BY <1>1 DEF RequestRecords
<1>4. req' = [req EXCEPT ![r] = q]
  BY DEF RequestsTyped
<1> HIDE DEF q
<1>5. QED
  BY <1>2, <1>3, <1>4 DEF RequestsTyped

LEMMA SeenTyped ==
  ASSUME RequestsTyped, NEW r \in Requests, NEW s \in Standings,
         req' = [req EXCEPT ![r].seen = s, ![r].pc = "commit"]
  PROVE  RequestsTyped'
<1> DEFINE q == [req[r] EXCEPT !.seen = s, !.pc = "commit"]
<1>1. req[r] \in RequestRecords
  BY DEF RequestsTyped
<1>2. q \in RequestRecords
  BY <1>1 DEF RequestRecords
<1>3. q.kind = req[r].kind /\ q.member = req[r].member /\ q.choice = req[r].choice
  BY <1>1 DEF RequestRecords
<1>4. req' = [req EXCEPT ![r] = q]
  BY DEF RequestsTyped
<1> HIDE DEF q
<1>5. QED
  BY <1>2, <1>3, <1>4 DEF RequestsTyped

LEMMA CountTyped ==
  ASSUME RequestsTyped, NEW r \in Requests, NEW n \in Nat,
         NEW to \in {"flushed", "commit"},
         req' = [req EXCEPT ![r].count = n, ![r].pc = to]
  PROVE  RequestsTyped'
<1> DEFINE q == [req[r] EXCEPT !.count = n, !.pc = to]
<1>1. req[r] \in RequestRecords
  BY DEF RequestsTyped
<1>2. q \in RequestRecords
  BY <1>1 DEF RequestRecords
<1>3. q.kind = req[r].kind /\ q.member = req[r].member /\ q.choice = req[r].choice
  BY <1>1 DEF RequestRecords
<1>4. req' = [req EXCEPT ![r] = q]
  BY DEF RequestsTyped
<1> HIDE DEF q
<1>5. QED
  BY <1>2, <1>3, <1>4 DEF RequestsTyped

LEMMA PhaseTypes ==
  ASSUME NEW p \in Phases
  PROVE  Advanced(p) \in Phases /\ NextPhase(p) \in Phases
BY DEF Phases, PHASE_ORDER, Advanced, NextPhase

(***************************************************************************)
(* Every value a handler keeps across an await has its type.               *)
(***************************************************************************)
THEOREM TypeCorrect == Spec => []TypeInv
<1>1. Init => TypeInv
  BY IdleType, SchedulesAssumption, BoundsAssumption
     DEF Init, TypeInv, RequestsTyped, TypeOK, Phases, PHASE_ORDER, Standings
<1>2. TypeInv /\ [Next]_vars => TypeInv'
  <2> SUFFICES ASSUME TypeInv, [Next]_vars PROVE TypeInv'
    OBVIOUS
  <2>a. RequestsTyped /\ TypeOK
    BY DEF TypeInv
  <2>b. RequestsTyped' => (req \in [Requests -> RequestRecords])'
    BY DEF RequestsTyped
  <2> USE DEF TypeInv, electionRow, nominationRows, voteRows, world
  <2>1. CASE UNCHANGED vars
    BY <2>1 DEF vars, TypeOK, RequestsTyped
  <2>2. ASSUME NEW r \in Requests, ViewPage(r) PROVE TypeInv'
    BY <2>2, PhaseTypes DEF ViewPage, RequestsTyped, TypeOK, RequestRecords,
       Idle, AllKinds, MemberKinds
  <2>3. ASSUME NEW r \in Requests, AdvancePhase(r) PROVE TypeInv'
    BY <2>3, PhaseTypes DEF AdvancePhase, RequestsTyped, TypeOK,
       RequestRecords, Idle, AllKinds, MemberKinds
  <2>4. ASSUME NEW r \in Requests, NEW m \in Members, NEW n \in Members,
               NEW kind \in MemberKinds, Open(r, kind, m, n)
        PROVE  TypeInv'
    BY <2>4, IdleType DEF Open, RequestsTyped, TypeOK, RequestRecords, Idle,
       AllKinds, MemberKinds
  <2>5. ASSUME NEW r \in Requests, CountEligible(r) PROVE TypeInv'
    <3>1. RequestsTyped'
      BY <2>5, EligibleCounted, CountTyped DEF CountEligible
    <3>2. QED
      BY <2>5, <2>a, <2>b, <3>1 DEF CountEligible, TypeOK
  <2>6. ASSUME NEW r \in Requests, CommitPhase(r) PROVE TypeInv'
    <3>1. RequestsTyped'
      BY <2>6, RespondTyped DEF CommitPhase
    <3>2. req[r].phase \in Phases /\ req[r].count \in Nat
      BY DEF RequestsTyped, RequestRecords
    <3>3. QED
      BY <2>6, <2>a, <2>b, <3>1, <3>2 DEF CommitPhase, TypeOK
  <2>7. ASSUME NEW r \in Requests, CheckMember(r) PROVE TypeInv'
    <3>1. RequestsTyped'
      BY <2>7, RespondTyped, ProceedTyped DEF CheckMember, Proceed
    <3>2. QED
      BY <2>7, <2>a, <2>b, <3>1 DEF CheckMember, TypeOK
  <2>8. ASSUME NEW r \in Requests, CheckOnce(r) PROVE TypeInv'
    <3>1. RequestsTyped'
      BY <2>8, RespondTyped, ProceedTyped DEF CheckOnce, Proceed
    <3>2. QED
      BY <2>8, <2>a, <2>b, <3>1 DEF CheckOnce, TypeOK
  <2>9. ASSUME NEW r \in Requests, CheckNominee(r) PROVE TypeInv'
    <3>1. RequestsTyped'
      BY <2>9, RespondTyped, ProceedTyped DEF CheckNominee, Proceed
    <3>2. QED
      BY <2>9, <2>a, <2>b, <3>1 DEF CheckNominee, TypeOK
  <2>10. ASSUME NEW r \in Requests, CheckBallot(r) PROVE TypeInv'
    <3>1. RequestsTyped'
      BY <2>10, RespondTyped, ProceedTyped DEF CheckBallot, Proceed
    <3>2. QED
      BY <2>10, <2>a, <2>b, <3>1 DEF CheckBallot, TypeOK
  <2>11. ASSUME NEW r \in Requests, FindNomination(r) PROVE TypeInv'
    <3>1. standing[req[r].choice] \in Standings
      BY <2>11 DEF FindNomination, TypeOK, RequestsTyped, MemberKinds
    <3>2. RequestsTyped'
      BY <2>11, <3>1, SeenTyped DEF FindNomination
    <3>3. QED
      BY <2>11, <2>a, <2>b, <3>2 DEF FindNomination, TypeOK
  <2>12. ASSUME NEW r \in Requests, FindOwnNomination(r) PROVE TypeInv'
    <3>1. standing[req[r].member] \in Standings
      BY <2>12 DEF FindOwnNomination, TypeOK, RequestsTyped, MemberKinds
    <3>2. RequestsTyped'
      BY <2>12, <3>1, SeenTyped, RespondTyped DEF FindOwnNomination
    <3>3. QED
      BY <2>12, <2>a, <2>b, <3>2 DEF FindOwnNomination, TypeOK
  <2>13. ASSUME NEW r \in Requests, CommitNomination(r) PROVE TypeInv'
    <3>1. RequestsTyped'
      BY <2>13, RespondTyped DEF CommitNomination
    <3>2. req[r].member \in Members
      BY <2>13 DEF CommitNomination, RequestsTyped, MemberKinds
    <3>3. QED
      BY <2>13, <2>a, <2>b, <3>1, <3>2 DEF CommitNomination, TypeOK, Standings
  <2>14. ASSUME NEW r \in Requests, CommitAnswer(r) PROVE TypeInv'
    <3>1. RequestsTyped'
      BY <2>14, RespondTyped DEF CommitAnswer
    <3>2. QED
      BY <2>14, <2>a, <2>b, <3>1 DEF CommitAnswer, TypeOK, Standings
  <2>15. ASSUME NEW r \in Requests, CommitVote(r) PROVE TypeInv'
    <3>1. RequestsTyped'
      BY <2>15, RespondTyped DEF CommitVote
    <3>2. req[r].member \in Members /\ req[r].choice \in Members
      BY <2>15 DEF CommitVote, RequestsTyped, MemberKinds
    <3>3. QED
      BY <2>15, <2>a, <2>b, <3>1, <3>2 DEF CommitVote, TypeOK
  <2>16. CASE Tick
    BY <2>16, BoundsAssumption DEF Tick, TypeOK, RequestsTyped
  <2>17. ASSUME NEW m \in Members, ChangeEligibility(m) PROVE TypeInv'
    BY <2>17, BoundsAssumption DEF ChangeEligibility, TypeOK, RequestsTyped
  <2>18. QED
    BY <2>1, <2>2, <2>3, <2>4, <2>5, <2>6, <2>7, <2>8, <2>9, <2>10, <2>11,
       <2>12, <2>13, <2>14, <2>15, <2>16, <2>17
       DEF Next, Arrive, Serve, Nominate, CastVote, Answer, MemberKinds
<1>3. QED
  BY <1>1, <1>2, PTL DEF Spec

THEOREM TypeOKCorrect == Spec => []TypeOK
BY TypeCorrect, PTL DEF TypeInv

-----------------------------------------------------------------------------
(***************************************************************************)
(* The ballot.  A request that is about to commit has read something that  *)
(* another request may have changed since; what is needed of it is still   *)
(* true, because a nomination is never taken back and an answer is never   *)
(* undone, only changed.                                                   *)
(***************************************************************************)
Checked(q) ==
  /\ q.kind = "vote" /\ q.pc = "commit" => standing[q.choice] \in Answered
  /\ q.kind = "nominate" /\ q.pc = "commit" /\ q.seen # "none" =>
       standing[q.choice] # "none"
  /\ q.kind \in {"accept", "decline"} /\ q.pc = "commit" =>
       standing[q.member] # "none"

CheckedInv == \A r \in Requests : Checked(req[r])

StandingKept ==
  \A m \in Members :
    /\ standing[m] # "none" => standing'[m] # "none"
    /\ standing[m] \in Answered => standing'[m] \in Answered

LEMMA NextKeepsStanding ==
  ASSUME TypeInv, [Next]_vars
  PROVE  StandingKept
<1> USE DEF TypeInv, TypeOK, StandingKept, Answered, electionRow, voteRows, world
<1>1. CASE UNCHANGED standing
  BY <1>1
<1>2. ASSUME NEW r \in Requests, CommitNomination(r) PROVE StandingKept
  <2>1. \/ standing' = standing
        \/ /\ standing[req[r].choice] = "none"
           /\ standing' = [standing EXCEPT ![req[r].choice] = "pending"]
    BY <1>2 DEF CommitNomination, nominationRows
  <2>2. QED
    BY <2>1
<1>3. ASSUME NEW r \in Requests, CommitAnswer(r) PROVE StandingKept
  BY <1>3 DEF CommitAnswer
<1>4. QED
  BY <1>1, <1>2, <1>3
     DEF Next, vars, nominationRows, Arrive, Serve, ViewPage, AdvancePhase,
         Nominate, CastVote, Answer, Open, CountEligible, CommitPhase,
         CheckMember, CheckOnce, CheckNominee, FindNomination,
         FindOwnNomination, CheckBallot, CommitVote, Tick, ChangeEligibility

LEMMA CheckedKept ==
  ASSUME TypeInv, CheckedInv, StandingKept, NEW r \in Requests,
         \A s \in Requests \ {r} : req'[s] = req[s],
         Checked(req[r])'
  PROVE  CheckedInv'
BY DEF TypeInv, RequestsTyped, CheckedInv, Checked, StandingKept, MemberKinds

LEMMA NextKeepsChecked ==
  ASSUME TypeInv, CheckedInv, [Next]_vars
  PROVE  CheckedInv'
<1>a. StandingKept
  BY NextKeepsStanding
<1>b. req \in [Requests -> RequestRecords]
  BY DEF TypeInv, RequestsTyped
<1>1. CASE UNCHANGED req
  BY <1>1, <1>a DEF TypeInv, RequestsTyped, CheckedInv, Checked, StandingKept,
                    MemberKinds
<1>2. ASSUME NEW r \in Requests, Respond(r) PROVE CheckedInv'
  <2>1. Checked(req[r])'
    BY <1>2, <1>b DEF Respond, Checked, Idle
  <2>2. QED
    BY <1>2, <1>a, <1>b, <2>1, CheckedKept DEF Respond
<1>3. ASSUME NEW r \in Requests,
             NEW to \in {"once", "choice", "record"}, Proceed(r, "", to)
      PROVE  CheckedInv'
  <2>1. Checked(req[r])'
    BY <1>3, <1>b DEF Proceed, Checked, RequestRecords
  <2>2. QED
    BY <1>3, <1>a, <1>b, <2>1, CheckedKept DEF Proceed
<1>4. ASSUME NEW r \in Requests, ViewPage(r) \/ AdvancePhase(r)
      PROVE  CheckedInv'
  <2>1. req'[r].kind \in {"page", "advance"}
    <3>1. CASE ViewPage(r)
      BY <3>1, <1>b DEF ViewPage, Idle
    <3>2. CASE AdvancePhase(r)
      BY <3>2, <1>b DEF AdvancePhase, Idle
    <3>3. QED
      BY <1>4, <3>1, <3>2
  <2>2. Checked(req[r])'
    BY <2>1 DEF Checked
  <2>3. QED
    BY <1>4, <1>a, <1>b, <2>2, CheckedKept DEF ViewPage, AdvancePhase
<1>5. ASSUME NEW r \in Requests, NEW m \in Members, NEW n \in Members,
             NEW kind, Open(r, kind, m, n)
      PROVE  CheckedInv'
  <2>1. Checked(req[r])'
    BY <1>5, <1>b DEF Open, Checked, Idle
  <2>2. QED
    BY <1>5, <1>a, <1>b, <2>1, CheckedKept DEF Open
<1>6. ASSUME NEW r \in Requests, CountEligible(r) PROVE CheckedInv'
  <2>1. Checked(req[r])'
    BY <1>6, <1>b DEF CountEligible, Checked, RequestRecords
  <2>2. QED
    BY <1>6, <1>a, <1>b, <2>1, CheckedKept DEF CountEligible
<1>7. ASSUME NEW r \in Requests, FindNomination(r) PROVE CheckedInv'
  <2>1. Checked(req[r])'
    BY <1>7, <1>b DEF FindNomination, Checked, RequestRecords, nominationRows
  <2>2. QED
    BY <1>7, <1>a, <1>b, <2>1, CheckedKept DEF FindNomination
<1>8. ASSUME NEW r \in Requests, FindOwnNomination(r), ~Respond(r)
      PROVE  CheckedInv'
  <2>1. Checked(req[r])'
    BY <1>8, <1>b DEF FindOwnNomination, Checked, RequestRecords, nominationRows
  <2>2. QED
    BY <1>8, <1>a, <1>b, <2>1, CheckedKept DEF FindOwnNomination
<1>9. ASSUME NEW r \in Requests, CheckBallot(r), ~Respond(r)
      PROVE  CheckedInv'
  <2>1. Checked(req[r])'
    BY <1>9, <1>b DEF CheckBallot, Proceed, Checked, RequestRecords, Answered,
                      nominationRows
  <2>2. QED
    BY <1>9, <1>a, <1>b, <2>1, CheckedKept DEF CheckBallot, Proceed
<1>10. QED
  BY <1>1, <1>2, <1>3, <1>4, <1>5, <1>6, <1>7, <1>8, <1>9
     DEF Next, vars, Arrive, Serve, Nominate, CastVote, Answer, CommitPhase,
         CheckMember, CheckOnce, CheckNominee, CommitNomination, CommitAnswer,
         CommitVote, Tick, ChangeEligibility, Proceed

LEMMA CheckedCorrect == Spec => []CheckedInv
<1>1. Init => CheckedInv
  BY DEF Init, CheckedInv, Checked, Idle
<1>2. QED
  BY <1>1, NextKeepsChecked, TypeCorrect, PTL DEF Spec

(***************************************************************************)
(* Every ballot is for a member who was nominated and has answered: the    *)
(* nominee had accepted when the vote was checked.                         *)
(***************************************************************************)
THEOREM BallotsForCandidatesCorrect == Spec => []BallotsForCandidates
<1>1. Init => BallotsForCandidates
  BY DEF Init, BallotsForCandidates
<1>2. TypeInv /\ CheckedInv /\ BallotsForCandidates /\ [Next]_vars
        => BallotsForCandidates'
  <2> SUFFICES ASSUME TypeInv, CheckedInv, BallotsForCandidates, [Next]_vars
               PROVE  BallotsForCandidates'
    OBVIOUS
  <2>1. StandingKept
    BY NextKeepsStanding
  <2>2. ballots \in Seq(Members)
    BY DEF TypeInv, TypeOK
  <2>3. CASE UNCHANGED ballots
    BY <2>1, <2>2, <2>3 DEF BallotsForCandidates, StandingKept, Answered
  <2>4. ASSUME NEW r \in Requests, CommitVote(r), ballots' # ballots
        PROVE  BallotsForCandidates'
    <3>1. ballots' = Append(ballots, req[r].choice) /\ standing' = standing
      BY <2>4 DEF CommitVote, voteRows, nominationRows
    <3>2. /\ standing[req[r].choice] \in Answered
          /\ req[r].choice \in Members
      BY <2>4 DEF CommitVote, CheckedInv, Checked, TypeInv, RequestsTyped,
                  MemberKinds
    <3>3. QED
      BY <2>2, <3>1, <3>2 DEF BallotsForCandidates, Answered
  <2>5. QED
    BY <2>3, <2>4
       DEF Next, vars, voteRows, Arrive, Serve, ViewPage, AdvancePhase,
           Nominate, CastVote, Answer, Open, CountEligible, CommitPhase,
           CheckMember, CheckOnce, CheckNominee, FindNomination,
           CommitNomination, FindOwnNomination, CommitAnswer, CheckBallot,
           Tick, ChangeEligibility
<1>3. QED
  BY <1>1, <1>2, TypeCorrect, CheckedCorrect, PTL DEF Spec

-----------------------------------------------------------------------------
(***************************************************************************)
(* The box and the roll.                                                   *)
(***************************************************************************)
\* The only step that touches either is the commit of a vote
LEMMA VoteOrStutter ==
  ASSUME TypeInv, [Next]_vars
  PROVE  \/ UNCHANGED voteRows
         \/ \E m, n \in Members : Box!Vote(m, n)
<1>1. ASSUME NEW r \in Requests, CommitVote(r)
      PROVE  UNCHANGED voteRows \/ \E m, n \in Members : Box!Vote(m, n)
  <2>1. req[r].member \in Members /\ req[r].choice \in Members
    BY <1>1 DEF CommitVote, TypeInv, RequestsTyped, MemberKinds
  <2>2. QED
    BY <1>1, <2>1 DEF CommitVote, Box!Vote
<1>2. QED
  BY <1>1
     DEF Next, vars, Arrive, Serve, ViewPage, AdvancePhase, Nominate, CastVote,
         Answer, Open, CountEligible, CommitPhase, CheckMember, CheckOnce,
         CheckNominee, FindNomination, CommitNomination, FindOwnNomination,
         CommitAnswer, CheckBallot, Tick, ChangeEligibility, voteRows

(***************************************************************************)
(* The voting implements the ballot box: each step of the election is a    *)
(* vote of somebody who is not on the roll yet, or leaves box and roll.    *)
(***************************************************************************)
THEOREM ImplementsBallotBox == Spec => BoxSpec
<1>1. Init => Box!Init
  BY DEF Init, Box!Init
<1>2. TypeInv /\ [Next]_vars => [Box!Next]_<<ballots, roll>>
  BY VoteOrStutter DEF Box!Next, voteRows
<1>3. QED
  BY <1>1, <1>2, TypeCorrect, PTL DEF Spec, BoxSpec, Box!Spec

(***************************************************************************)
(* One ballot per name on the roll, in every reachable state.              *)
(***************************************************************************)
THEOREM BallotsMatchRollCorrect == Spec => []BallotsMatchRoll
<1>1. Init => BallotsMatchRoll
  BY FS_EmptySet DEF Init, BallotsMatchRoll
<1>2. TypeInv /\ BallotsMatchRoll /\ [Next]_vars => BallotsMatchRoll'
  <2> SUFFICES ASSUME TypeInv, BallotsMatchRoll, [Next]_vars
               PROVE  BallotsMatchRoll'
    OBVIOUS
  <2>1. CASE UNCHANGED voteRows
    BY <2>1 DEF voteRows, BallotsMatchRoll
  <2>2. ASSUME NEW m \in Members, NEW n \in Members, Box!Vote(m, n)
        PROVE  BallotsMatchRoll'
    <3>1. IsFiniteSet(roll)
      BY MembersAssumption, FS_Subset DEF TypeInv, TypeOK
    <3>2. Cardinality(roll') = Cardinality(roll) + 1
      BY <2>2, <3>1, FS_AddElement DEF Box!Vote
    <3>3. Len(ballots') = Len(ballots) + 1
      BY <2>2 DEF Box!Vote, TypeInv, TypeOK
    <3>4. QED
      BY <3>2, <3>3 DEF BallotsMatchRoll
  <2>3. QED
    BY <2>1, <2>2, VoteOrStutter
<1>3. QED
  BY <1>1, <1>2, TypeCorrect, PTL DEF Spec

-----------------------------------------------------------------------------
(***************************************************************************)
(* Nominees are never more than the members who have nominated.            *)
(***************************************************************************)
LEMMA NominationStep ==
  ASSUME TypeInv, CheckedInv, NominationsMatchReceipts, NEW r \in Requests,
         CommitNomination(r)
  PROVE  NominationsMatchReceipts'
<1> DEFINE c == req[r].choice
           m == req[r].member
<1>1. m \in Members /\ c \in Members
  BY DEF CommitNomination, TypeInv, RequestsTyped, MemberKinds
<1>2. IsFiniteSet(receipts) /\ IsFiniteSet(Nominees)
  BY MembersAssumption, FS_Subset DEF TypeInv, TypeOK, Nominees
<1>3. CASE UNCHANGED nominationRows
  BY <1>3 DEF nominationRows, NominationsMatchReceipts, Nominees
<1>4. CASE ~UNCHANGED nominationRows
  <2>1. m \notin receipts /\ receipts' = receipts \cup {m}
    BY <1>4 DEF CommitNomination
  <2>2. Cardinality(receipts') = Cardinality(receipts) + 1
    BY <1>2, <2>1, FS_AddElement
  <2>3. Nominees' = Nominees \cup {c}
    <3>1. CASE req[r].seen = "none"
      BY <1>1, <1>4, <3>1 DEF CommitNomination, Nominees, TypeInv, TypeOK
    <3>2. CASE req[r].seen # "none"
      BY <1>1, <1>4, <3>2 DEF CommitNomination, Nominees, TypeInv, TypeOK,
                              CheckedInv, Checked
    <3>3. QED
      BY <3>1, <3>2
  <2>4. Cardinality(Nominees') <= Cardinality(Nominees) + 1
    <3>1. Cardinality(Nominees) \in Nat
      BY <1>2, FS_CardinalityType
    <3>2. CASE c \in Nominees
      <4>1. Nominees' = Nominees
        BY <2>3, <3>2
      <4>2. QED
        BY <3>1, <4>1
    <3>3. CASE c \notin Nominees
      <4>1. Cardinality(Nominees \cup {c}) = Cardinality(Nominees) + 1
        BY <1>2, <3>3, FS_AddElement
      <4>2. QED
        BY <2>3, <3>1, <4>1
    <3>4. QED
      BY <3>2, <3>3
  <2>5. Cardinality(receipts) \in Nat /\ Cardinality(Nominees) \in Nat
    BY <1>2, FS_CardinalityType
  <2>6. IsFiniteSet(Nominees')
    BY <1>2, <2>3, FS_AddElement
  <2>7. Cardinality(Nominees') \in Nat
    BY <2>6, FS_CardinalityType
  <2>8. QED
    BY <2>2, <2>3, <2>4, <2>5, <2>7 DEF NominationsMatchReceipts
<1>5. QED
  BY <1>3, <1>4

THEOREM NominationsMatchReceiptsCorrect == Spec => []NominationsMatchReceipts
<1>1. Init => NominationsMatchReceipts
  <2> SUFFICES ASSUME Init PROVE NominationsMatchReceipts
    OBVIOUS
  <2>1. Nominees = {} /\ receipts = {}
    BY DEF Init, Nominees
  <2>2. QED
    BY <2>1, FS_EmptySet DEF NominationsMatchReceipts
<1>2. TypeInv /\ CheckedInv /\ NominationsMatchReceipts /\ [Next]_vars
        => NominationsMatchReceipts'
  <2> SUFFICES ASSUME TypeInv, CheckedInv, NominationsMatchReceipts, [Next]_vars
               PROVE  NominationsMatchReceipts'
    OBVIOUS
  <2>1. CASE UNCHANGED nominationRows
    BY <2>1 DEF nominationRows, NominationsMatchReceipts, Nominees
  <2>2. ASSUME NEW r \in Requests, CommitAnswer(r)
        PROVE  NominationsMatchReceipts'
    <3>1. req[r].member \in Members /\ standing[req[r].member] # "none"
      BY <2>2 DEF CommitAnswer, TypeInv, RequestsTyped, MemberKinds,
                  CheckedInv, Checked
    <3>2. Nominees' = Nominees /\ receipts' = receipts
      BY <2>2, <3>1 DEF CommitAnswer, Nominees, TypeInv, TypeOK
    <3>3. QED
      BY <3>2 DEF NominationsMatchReceipts
  <2>3. ASSUME NEW r \in Requests, CommitNomination(r)
        PROVE  NominationsMatchReceipts'
    BY <2>3, NominationStep
  <2>4. QED
    BY <2>1, <2>2, <2>3
       DEF Next, vars, Arrive, Serve, ViewPage, AdvancePhase, Nominate, CastVote,
           Answer, Open, CountEligible, CommitPhase, CheckMember, CheckOnce,
           CheckNominee, FindNomination, FindOwnNomination, CheckBallot,
           CommitVote, Tick, ChangeEligibility, nominationRows
<1>3. QED
  BY <1>1, <1>2, TypeCorrect, CheckedCorrect, PTL DEF Spec
=============================================================================
