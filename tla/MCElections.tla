----------------------------- MODULE MCElections ----------------------------
(***************************************************************************)
(* Instances of Elections for TLC.  The dates leave two instants for the   *)
(* voting, of which the last is also the one at which it closes.           *)
(***************************************************************************)
EXTENDS Elections, TLC

CONSTANTS m1, m2, m3, r1, r2, nobody

Two == {m1, m2}
Three == {m1, m2, m3}
OneRequest == {r1}
TwoRequests == {r1, r2}

Ordered == [nomOpen |-> 0, nomClose |-> 0, voteOpen |-> 1, voteClose |-> 2]
\* The creator made the nomination window overlap the voting window
Overlapping == [nomOpen |-> 0, nomClose |-> 1, voteOpen |-> 0, voteClose |-> 1]
InOrder == {Ordered}
Scheduled ==
  {[nomOpen |-> 1, nomClose |-> 1, voteOpen |-> 2, voteClose |-> 3], Ordered}
AnyOrder == {Ordered, Overlapping}

Symmetry == Permutations(Two) \cup Permutations(TwoRequests)
=============================================================================
