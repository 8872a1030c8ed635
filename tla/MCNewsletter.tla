---------------------------- MODULE MCNewsletter ----------------------------
(***************************************************************************)
(* Instances of Newsletter for TLC.                                        *)
(***************************************************************************)
EXTENDS Newsletter, TLC

CONSTANTS i1, i2, a1, a2, d1, d2, loop

OneIssue == {i1}
TwoIssues == {i1, i2}
OneAttachment == {a1}
TwoAttachments == {a1, a2}
OneDelivery1 == {d1}
TwoDeliveries == {d1, d2}
=============================================================================
