-------------------------- MODULE MCRecruitIntake --------------------------
(***************************************************************************)
(* Instances of RecruitIntake for TLC.                                     *)
(***************************************************************************)
EXTENDS RecruitIntake, TLC

CONSTANTS s1, none

OneSub == {s1}

Legion == [screen |-> "clean", route |-> "deck", mail |-> "good",
           located |-> TRUE]
BadMail == [Legion EXCEPT !.mail = "bounces"]
Unlocated == [Legion EXCEPT !.located = FALSE]

\* Every kind that the daemon treats differently: nothing is read of an exact
\* match, and no address is geocoded for another company
Everyone ==
  {a \in Application :
     /\ a.screen = "exact" => a = [Legion EXCEPT !.screen = "exact"]
     /\ ~a.located => a.route = "deck" /\ a.mail = "good"
     /\ a.route = "other" => a.mail \in {"none", "good"}}
OnlyUnlocated == {Unlocated}
OnlyBadMail == {BadMail}
=============================================================================
