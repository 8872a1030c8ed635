------------------------ MODULE MCRecruitOnboarding ------------------------
(***************************************************************************)
(* Instances of RecruitOnboarding for TLC: one card, or two cards whose    *)
(* applicants have the same name.                                          *)
(***************************************************************************)
EXTENDS RecruitOnboarding, TLC

CONSTANTS c1, c2, u1, u2, none

MCCards == {c1, c2}
MCUsers == {u1, u2}
Same == [c \in MCCards |-> u1]
OneCard == {c1}
OneUser == {u1}
OneOwner == [c \in OneCard |-> u1]
=============================================================================
