------------------------------ MODULE MCRoster ------------------------------
(***************************************************************************)
(* Instances of Roster for TLC.                                            *)
(***************************************************************************)
EXTENDS Roster, TLC

CONSTANTS m1, m2, a, b, c

TwoMembers == {m1, m2}
TwoTeams == {a, b}
ThreeTeams == {a, b, c}
\* Team a may come to be called c.
Letters == (a :> 1) @@ (b :> 2) @@ (c :> 1)
\* An NCO who leads team a, and a recruit of team b.
LeaderAndRecruit ==
  (m1 :> [rank |-> 2, status |-> "active", team |-> a, title |-> "TL", hold |-> FALSE]) @@
  (m2 :> [rank |-> 1, status |-> "recruit", team |-> b, title |-> "none", hold |-> FALSE])
\* The leader has been promoted beyond NCO.
SeniorAndRecruit == [LeaderAndRecruit EXCEPT ![m1].rank = 3]
=============================================================================
