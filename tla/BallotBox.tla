----------------------------- MODULE BallotBox -----------------------------
(***************************************************************************)
(* What the voting part of app/routes/elections.py promises ("ANONYMITY    *)
(* CRITICAL" in cast_vote): a box of ballots that name a nominee and no    *)
(* voter, and beside it the roll of who has voted.  A vote adds one of     *)
(* each in one step, a member votes once, and what is in the box or on the *)
(* roll stays.                                                             *)
(***************************************************************************)
EXTENDS Sequences

CONSTANT Members

VARIABLES
  box,       \* the ballots, each a nominee
  voters     \* the roll

Init == box = <<>> /\ voters = {}

Vote(m, n) ==
  /\ m \notin voters
  /\ box' = Append(box, n)
  /\ voters' = voters \cup {m}

Next == \E m, n \in Members : Vote(m, n)

Spec == Init /\ [][Next]_<<box, voters>>
=============================================================================
